---- MODULE Spec2Model ----
(***************************************************************************)
(* Asset Orchestration Engine of src/tx_baggage/asset_server.py: the       *)
(* AssetServer object (playback state, per-card index and stored asset     *)
(* list, scan history) and the RequestHandler POST handlers that drive it. *)
(*                                                                         *)
(* A method of AssetServer is an operator from the server object (a record *)
(* of its fields) to [ret, self]: the value it returns and the object it   *)
(* leaves.  The events handed to broadcast_sse_event are collected in the  *)
(* field "published".  In Spec one action handles one HTTP request          *)
(* completely; in SpecThreads two request threads run the handlers         *)
(* statement by statement; in SpecSSE a request thread broadcasts to the   *)
(* subscribers of /events; in SpecMedia a request thread delivers an asset *)
(* file while another handles playback requests.                           *)
(***************************************************************************)
EXTENDS Integers, Sequences, FiniteSets, TLC

VARIABLES
    assets_played,          \* AssetServer.assets_played
    last_asset_info,        \* AssetServer.last_asset_info (NoInfo is None)
    scanned_cards,          \* AssetServer.scanned_cards: card -> record
    unknown_cards,          \* AssetServer.unknown_cards: card -> record
    card_asset_indices,     \* AssetServer.card_asset_indices: card -> index
    card_asset_files,       \* AssetServer.card_asset_files: card -> list
    current_card_id,        \* AssetServer.current_card_id (None is no card)
    card_removal_timestamp, \* AssetServer.card_removal_timestamp
    storage,                \* names for which os.path.exists(asset path)
    now,                    \* the value datetime.now() returns
    request,                \* the request handled last: path and JSON body
    response,               \* the HTTP response to it
    published,              \* the events broadcast while handling it
    pc,                     \* request thread -> the statement it is at
    frame,                  \* thread -> its request and local variables
    completed,              \* the requests answered so far, in order of answer
    sse_clients,            \* AssetServer.sse_clients: the registered handlers
    sse_connected,          \* subscriber -> RequestHandler.sse_connected
    socket,                 \* subscriber -> what a write to its wfile does
    inbox,                  \* subscriber -> the events written to its wfile
    joined                  \* subscriber -> the calls made before it registered

sseVars == <<sse_clients, sse_connected, socket, inbox, joined>>

vars == <<assets_played, last_asset_info, scanned_cards, unknown_cards,
          card_asset_indices, card_asset_files, current_card_id,
          card_removal_timestamp, storage, now, request, response,
          published, pc, frame, completed, sseVars>>

----------------------------------------------------------------------------
(* Bounds and input sets *)

\* Number of requests handled before the model stops.
MaxRequests == 3
\* Number of requests the concurrent request threads take up.
MaxCalls == 2
\* Number of times a subscriber's keep-alive loop wakes up while connected.
MaxTicks == 6
\* Number of polls of the scanner in a row that read no card.
MaxFailures == 16
\* ThreadingHTTPServer starts one thread per request; two run at a time.
Threads == {"t1", "t2"}
\* The web players that subscribe to /events, and the host each is on.
Clients == {"s1", "s2"}
\* All the handlers of /events: the web players and a browser on another host.
Handlers == Clients \cup {"s3"}
client_address == [s \in Handlers |-> IF s \in Clients THEN "10.0.0.7" ELSE "10.0.0.9"]

None == "<None>"
NoInfo == [none |-> TRUE]
NoIndex == -100             \* the request carries no asset_index key

Cards == {"A1", "B2"}
\* The scanner client (pico_expander_client.py), a process of its own
Scanner == "pico"
CardIdInputs == Cards \cup {""}

File(stem, ext) == [stem |-> stem, ext |-> ext]
v1 == File("v1", ".mp4")
i1 == File("i1", ".jpg")
v2 == File("v2", ".MP4")
gone == File("gone", ".mp4")

\* An asset_files value of the request body: a JSON list, or a bare string.
List(items) == [isStr |-> FALSE, items |-> items]
Str(f) == [isStr |-> TRUE, items |-> <<f>>]
AssetFileInputs ==
    { List(<<>>), List(<<v1>>), List(<<v1, i1>>), List(<<v1, gone>>),
      List(<<v1, i1, v2>>), Str(v1) }
IndexInputs == {NoIndex} \cup (-1 .. 3)
\* The /play request bodies: every card with every list and index, and one
\* body without a card_id key (card_id defaults to "").
PlayInputs ==
    (Cards \X AssetFileInputs \X IndexInputs) \cup {<<"", List(<<v1>>), NoIndex>>}
DirectionInputs == {"next", "prev", "up"}

\* A config.py text of an /update-config body, by what reloading it gives:
\* the keys of its CARD_ASSETS, or an exception when it cannot be loaded.
Config(keys) == [loadable |-> TRUE, keys |-> keys]
BrokenConfig == [loadable |-> FALSE, keys |-> {}]
ConfigInputs == {Config(keys) : keys \in SUBSET Cards} \cup {BrokenConfig}

EmptyMap == [c \in {} |-> 0]
Put(m, k, v) == [c \in DOMAIN m \cup {k} |-> IF c = k THEN v ELSE m[c]]

----------------------------------------------------------------------------
(* AssetServer *)

VIDEO_EXTENSIONS == {".mp4", ".avi", ".mov", ".mkv", ".wmv", ".flv", ".m4v", ".webm"}
IMAGE_EXTENSIONS == {".jpg", ".jpeg", ".png", ".gif", ".bmp", ".webp", ".svg"}

\* str.lower() on the extensions that occur
Lower(ext) == IF ext = ".MP4" THEN ".mp4" ELSE ext

get_asset_type(filename) ==
    IF Lower(filename.ext) \in VIDEO_EXTENSIONS THEN "video"
    ELSE IF Lower(filename.ext) \in IMAGE_EXTENSIONS THEN "image"
    ELSE "unknown"

\* os.path.exists(self.get_asset_path(filename))
asset_exists(filename) == filename \in storage

\* The server object as the request finds it; nothing published yet.
Self ==
    [assets_played |-> assets_played,
     last_asset_info |-> last_asset_info,
     scanned_cards |-> scanned_cards,
     unknown_cards |-> unknown_cards,
     card_asset_indices |-> card_asset_indices,
     card_asset_files |-> card_asset_files,
     current_card_id |-> current_card_id,
     card_removal_timestamp |-> card_removal_timestamp,
     published |-> <<>>]

broadcast_sse_event(self, event_type, data) ==
    [self EXCEPT !.published =
        Append(@, [type |-> event_type, data |-> data, timestamp |-> now])]

\* Faulty variant of track_card_scan: a card whose mapped status changes
\* gets a fresh record.
track_card_scan_restarts_on_remap(self, card_id, is_mapped) ==
    LET current_time == now
        sc == self.scanned_cards
        uk == self.unknown_cards
        fresh == [first_seen |-> current_time, last_seen |-> current_time,
                  scan_count |-> 1, mapped |-> is_mapped]
        sc2 == IF card_id \notin DOMAIN sc THEN Put(sc, card_id, fresh)
               ELSE IF sc[card_id].mapped # is_mapped
               THEN [sc EXCEPT ![card_id] = fresh]
               ELSE [sc EXCEPT ![card_id].last_seen = current_time,
                               ![card_id].scan_count = @ + 1]
        uk2 == IF is_mapped THEN uk
               ELSE IF card_id \notin DOMAIN uk
               THEN Put(uk, card_id, [first_seen |-> current_time,
                                      last_seen |-> current_time,
                                      scan_count |-> 1])
               ELSE [uk EXCEPT ![card_id].last_seen = current_time,
                               ![card_id].scan_count = @ + 1]
    IN [self EXCEPT !.scanned_cards = sc2, !.unknown_cards = uk2]

track_card_scan(self, card_id, is_mapped) ==
    LET current_time == now
        sc == self.scanned_cards
        uk == self.unknown_cards
        sc2 == IF card_id \notin DOMAIN sc
               THEN Put(sc, card_id, [first_seen |-> current_time,
                                      last_seen |-> current_time,
                                      scan_count |-> 1,
                                      mapped |-> is_mapped])
               ELSE [sc EXCEPT ![card_id].last_seen = current_time,
                               ![card_id].scan_count = @ + 1,
                               ![card_id].mapped = is_mapped]
        uk2 == IF is_mapped THEN uk
               ELSE IF card_id \notin DOMAIN uk
               THEN Put(uk, card_id, [first_seen |-> current_time,
                                      last_seen |-> current_time,
                                      scan_count |-> 1])
               ELSE [uk EXCEPT ![card_id].last_seen = current_time,
                               ![card_id].scan_count = @ + 1]
    IN [self EXCEPT !.scanned_cards = sc2, !.unknown_cards = uk2]

\* Faulty variant of update_card_mapping_status: mapped cards stay in
\* unknown_cards.
update_card_mapping_status_keeps_unknown(self, config) ==
    IF ~config.loadable THEN self
    ELSE LET current_mappings == config.keys
             sc == [c \in DOMAIN self.scanned_cards |->
                      [self.scanned_cards[c] EXCEPT
                          !.mapped = (c \in current_mappings)]]
             s1 == [self EXCEPT !.scanned_cards = sc]
         IN broadcast_sse_event(s1, "config_updated",
                [mapped_cards |-> Cardinality(current_mappings),
                 timestamp |-> now])

\* config is what reload(config) finds; an exception of the reload is caught
\* and logged before anything is written.
update_card_mapping_status(self, config) ==
    IF ~config.loadable THEN self
    ELSE LET current_mappings == config.keys
             sc == [c \in DOMAIN self.scanned_cards |->
                      [self.scanned_cards[c] EXCEPT
                          !.mapped = (c \in current_mappings)]]
             keep == {c \in DOMAIN self.unknown_cards :
                        ~(c \in DOMAIN self.scanned_cards /\ c \in current_mappings)}
             uk == [c \in keep |-> self.unknown_cards[c]]
             s1 == [self EXCEPT !.scanned_cards = sc, !.unknown_cards = uk]
         IN broadcast_sse_event(s1, "config_updated",
                [mapped_cards |-> Cardinality(current_mappings),
                 timestamp |-> now])

\* Faulty variant of remove_card: the removed card also loses its position.
remove_card_forgets_position(self, card_id) ==
    LET ts == now
        info == [action |-> "card_removed", card_id |-> card_id, timestamp |-> ts]
        s1 == [self EXCEPT !.current_card_id = None,
                           !.card_removal_timestamp = ts,
                           !.last_asset_info = info,
                           !.card_asset_indices =
                               [c \in DOMAIN @ |-> IF c = card_id THEN 0 ELSE @[c]]]
    IN [ret |-> TRUE, self |-> broadcast_sse_event(s1, "card_removed", info)]

remove_card(self, card_id) ==
    LET ts == now
        info == [action |-> "card_removed", card_id |-> card_id, timestamp |-> ts]
        s1 == [self EXCEPT !.current_card_id = None,
                           !.card_removal_timestamp = ts,
                           !.last_asset_info = info]
    IN [ret |-> TRUE, self |-> broadcast_sse_event(s1, "card_removed", info)]

\* Faulty variant of play_asset: last_asset_info is written before the file is looked for.
play_asset_info_before_check(self, filename, card_id, asset_index, total_assets, asset_files) ==
    LET info == [asset_file |-> filename,
                 asset_type |-> get_asset_type(filename),
                 card_id |-> card_id,
                 asset_index |-> asset_index,
                 total_assets |-> total_assets,
                 asset_files |-> asset_files,
                 timestamp |-> now]
        s1 == [self EXCEPT !.last_asset_info = info]
        s2 == IF card_id # "" THEN track_card_scan(s1, card_id, TRUE) ELSE s1
    IN IF ~asset_exists(filename)
       THEN [ret |-> FALSE, self |-> s1]
       ELSE [ret |-> TRUE, self |-> [s2 EXCEPT !.assets_played = @ + 1]]

play_asset(self, filename, card_id, asset_index, total_assets, asset_files) ==
    IF ~asset_exists(filename)
    THEN [ret |-> FALSE, self |-> self]
    ELSE LET info == [asset_file |-> filename,
                      asset_type |-> get_asset_type(filename),
                      card_id |-> card_id,
                      asset_index |-> asset_index,
                      total_assets |-> total_assets,
                      asset_files |-> asset_files,
                      timestamp |-> now]
             s1 == [self EXCEPT !.last_asset_info = info]
             s2 == IF card_id # "" THEN track_card_scan(s1, card_id, TRUE) ELSE s1
         IN [ret |-> TRUE, self |-> [s2 EXCEPT !.assets_played = @ + 1]]

\* "Validate asset index": the index play_assets_directly goes on with
ValidateIndex(asset_index, len) ==
    IF asset_index < 0 \/ asset_index >= len THEN 0 ELSE asset_index

\* isinstance(asset_files, str): a bare string becomes a one-element list
NormalizeAssetFiles(asset_files) == asset_files.items

\* Faulty variant of store_card_assets: the index is stored as it is shown (1-based).
store_card_assets_one_based(self, card_id, asset_index, asset_files) ==
    LET s1 == [self EXCEPT !.current_card_id = card_id]
    IN IF card_id # ""
       THEN [s1 EXCEPT !.card_asset_indices = Put(@, card_id, asset_index + 1),
                       !.card_asset_files = Put(@, card_id, asset_files)]
       ELSE s1

\* "Set current card for navigation"
store_card_assets(self, card_id, asset_index, asset_files) ==
    LET s1 == [self EXCEPT !.current_card_id = card_id]
    IN IF card_id # ""
       THEN [s1 EXCEPT !.card_asset_indices = Put(@, card_id, asset_index),
                       !.card_asset_files = Put(@, card_id, asset_files)]
       ELSE s1

play_assets_directly(self, asset_files_in, card_id, asset_index_in) ==
    IF asset_files_in.items = <<>>
    THEN [ret |-> FALSE, self |-> self]
    ELSE LET asset_files == NormalizeAssetFiles(asset_files_in)
             asset_index == ValidateIndex(asset_index_in, Len(asset_files))
             filename == asset_files[asset_index + 1]
             s2 == store_card_assets(self, card_id, asset_index, asset_files)
             r == play_asset(s2, filename, card_id, asset_index,
                             Len(asset_files), asset_files)
         IN IF r.ret
            THEN [ret |-> TRUE,
                  self |-> broadcast_sse_event(r.self, "asset_play",
                                               r.self.last_asset_info)]
            ELSE r

\* Faulty variant of NewIndex: prev steps back without wrapping around.
NewIndex_prev_no_wrap(current_index, direction, len) ==
    IF direction = "next" THEN (current_index + 1) % len
    ELSE IF direction = "prev" THEN current_index - 1
    ELSE -1

\* Faulty variant of NewIndex: prev moves forward like next.
NewIndex_prev_as_next(current_index, direction, len) ==
    IF direction = "next" THEN (current_index + 1) % len
    ELSE IF direction = "prev" THEN (current_index + 1) % len
    ELSE -1

\* "Calculate new index"; -1 when the direction is neither next nor prev
NewIndex(current_index, direction, len) ==
    IF direction = "next" THEN (current_index + 1) % len
    ELSE IF direction = "prev" THEN (current_index - 1) % len
    ELSE -1

\* Faulty variant of NotEnoughAssets: only an empty list is refused.
NotEnoughAssets_only_empty(asset_files) == Len(asset_files) = 0

\* "not asset_files or len(asset_files) <= 1"
NotEnoughAssets(asset_files) == Len(asset_files) <= 1

navigate_stored_assets(self, card_id, direction) ==
    IF card_id \notin DOMAIN self.card_asset_files
    THEN [ret |-> FALSE, self |-> self]
    ELSE LET asset_files == self.card_asset_files[card_id]
         IN IF NotEnoughAssets(asset_files)
            THEN [ret |-> FALSE, self |-> self]
            ELSE LET current_index ==
                         IF card_id \in DOMAIN self.card_asset_indices
                         THEN self.card_asset_indices[card_id] ELSE 0
                     new_index == NewIndex(current_index, direction, Len(asset_files))
                 IN IF direction \notin {"next", "prev"}
                    THEN [ret |-> FALSE, self |-> self]
                    ELSE play_assets_directly(self, List(asset_files), card_id, new_index)

----------------------------------------------------------------------------
(* RequestHandler: each operator gives [response, self] *)

BadRequest(self, text) == [response |-> [status |-> 400, body |-> text], self |-> self]

\* Faulty variant of do_POST_play: a body without asset files marks the card unknown
\* before it is refused.
do_POST_play_marks_unknown(self, card_id, asset_files, asset_index_in) ==
    LET asset_index == IF asset_index_in = NoIndex THEN 0 ELSE asset_index_in
    IN IF asset_files.items = <<>>
       THEN BadRequest(IF card_id # "" THEN track_card_scan(self, card_id, FALSE)
                       ELSE self,
                       "No asset_files specified")
       ELSE LET r == play_assets_directly(self, asset_files, card_id, asset_index)
                asset_info == r.self.last_asset_info
            IN IF r.ret
               THEN [response |-> [status |-> 200, success |-> TRUE,
                                   card_id |-> card_id,
                                   asset_file |-> asset_info.asset_file,
                                   asset_index |-> asset_info.asset_index,
                                   total_assets |-> asset_info.total_assets,
                                   message |-> "Asset triggered"],
                     self |-> r.self]
               ELSE [response |-> [status |-> 200, success |-> FALSE,
                                   card_id |-> card_id,
                                   message |-> "Failed to trigger assets"],
                     self |-> r.self]

\* do_POST, path /play
do_POST_play(self, card_id, asset_files, asset_index_in) ==
    LET asset_index == IF asset_index_in = NoIndex THEN 0 ELSE asset_index_in
    IN IF asset_files.items = <<>>
       THEN BadRequest(self, "No asset_files specified")
       ELSE LET r == play_assets_directly(self, asset_files, card_id, asset_index)
                asset_info == r.self.last_asset_info
            IN IF r.ret
               THEN [response |-> [status |-> 200, success |-> TRUE,
                                   card_id |-> card_id,
                                   asset_file |-> asset_info.asset_file,
                                   asset_index |-> asset_info.asset_index,
                                   total_assets |-> asset_info.total_assets,
                                   message |-> "Asset triggered"],
                     self |-> r.self]
               ELSE [response |-> [status |-> 200, success |-> FALSE,
                                   card_id |-> card_id,
                                   message |-> "Failed to trigger assets"],
                     self |-> r.self]

handle_navigation(self, card_id, direction) ==
    IF card_id = "" THEN BadRequest(self, "Missing card_id parameter")
    ELSE IF direction \notin {"next", "prev"}
    THEN BadRequest(self, "Invalid direction")
    ELSE LET r == navigate_stored_assets(self, card_id, direction)
             asset_info == r.self.last_asset_info
         IN IF r.ret
            THEN [response |-> [status |-> 200, success |-> TRUE,
                                card_id |-> card_id, direction |-> direction,
                                asset_file |-> asset_info.asset_file,
                                asset_index |-> asset_info.asset_index,
                                total_assets |-> asset_info.total_assets,
                                message |-> "Navigated"],
                  self |-> r.self]
            ELSE [response |-> [status |-> 200, success |-> FALSE,
                                card_id |-> card_id, direction |-> direction,
                                message |-> "Navigation failed"],
                  self |-> r.self]

handle_card_removal(self, card_id) ==
    IF card_id = "" THEN BadRequest(self, "Missing card_id parameter")
    ELSE LET r == remove_card(self, card_id)
         IN [response |-> [status |-> 200, success |-> r.ret,
                           card_id |-> card_id, action |-> "card_removed",
                           message |-> "Card removed"],
             self |-> r.self]

\* Faulty variant of handle_unknown_card: an unknown card ends the playback
\* of the current card.
handle_unknown_card_clears_current(self, card_id) ==
    IF card_id = "" THEN BadRequest(self, "Missing card_id parameter")
    ELSE [response |-> [status |-> 200, status_text |-> "success",
                        card_id |-> card_id,
                        message |-> "Card marked as unknown"],
          self |-> [track_card_scan(self, card_id, FALSE) EXCEPT
                       !.current_card_id = None]]

handle_unknown_card(self, card_id) ==
    IF card_id = "" THEN BadRequest(self, "Missing card_id parameter")
    ELSE [response |-> [status |-> 200, status_text |-> "success",
                        card_id |-> card_id,
                        message |-> "Card marked as unknown"],
          self |-> track_card_scan(self, card_id, FALSE)]

\* The config.py written by the request is the one the reload reads.
handle_config_update(self, config) ==
    [response |-> [status |-> 200, status_text |-> "success",
                   message |-> "Config updated"],
     self |-> update_card_mapping_status(self, config)]

\* Faulty variant of do_GET_current_asset: a removal record counts as no asset.
do_GET_current_asset_hides_removal(self) ==
    [response |-> [status |-> 200,
                   body |-> IF \/ self.last_asset_info = NoInfo
                               \/ "action" \in DOMAIN self.last_asset_info
                            THEN [asset_file |-> None]
                            ELSE self.last_asset_info],
     self |-> self]

\* do_GET, path /current-asset
do_GET_current_asset(self) ==
    [response |-> [status |-> 200,
                   body |-> IF self.last_asset_info # NoInfo
                            THEN self.last_asset_info
                            ELSE [asset_file |-> None]],
     self |-> self]

----------------------------------------------------------------------------
(* The state machine *)

\* The fields the handler of request req may have written, its response and
\* its events.  Requests are handled at successive instants: every reading
\* of the clock within one request gives now.
Commit(req, r) ==
    /\ assets_played' = r.self.assets_played
    /\ last_asset_info' = r.self.last_asset_info
    /\ scanned_cards' = r.self.scanned_cards
    /\ unknown_cards' = r.self.unknown_cards
    /\ card_asset_indices' = r.self.card_asset_indices
    /\ card_asset_files' = r.self.card_asset_files
    /\ current_card_id' = r.self.current_card_id
    /\ card_removal_timestamp' = r.self.card_removal_timestamp
    /\ published' = r.self.published
    /\ response' = r.response
    /\ request' = req
    /\ now' = now + 1
    /\ UNCHANGED <<sseVars, storage, pc, frame, completed>>

Init ==
    /\ assets_played = 0
    /\ last_asset_info = NoInfo
    /\ scanned_cards = EmptyMap
    /\ unknown_cards = EmptyMap
    /\ card_asset_indices = EmptyMap
    /\ card_asset_files = EmptyMap
    /\ current_card_id = None
    /\ card_removal_timestamp = None
    /\ storage = {v1, i1, v2}
    /\ now = 0
    /\ request = [path |-> "none"]
    /\ response = [status |-> 0]
    /\ published = <<>>
    /\ pc = [t \in Threads \cup Handlers \cup {Scanner} |->
               IF t \in Threads THEN "idle" ELSE IF t \in Handlers THEN "new" ELSE "run"]
    /\ frame = [t \in Threads \cup Handlers \cup {Scanner} |->
                  IF t \in Threads THEN [req |-> [path |-> "none"]]
                  ELSE IF t \in Handlers
                  THEN [req |-> [path |-> "/events"], heartbeat_count |-> 0]
                  ELSE [current_card |-> None, card_present |-> FALSE,
                        card_processed |-> FALSE, consecutive_failures |-> 0,
                        card_id |-> None]]
    /\ completed = <<>>
    /\ sse_clients = {}
    /\ sse_connected = [s \in Handlers |-> FALSE]
    /\ socket = [s \in Handlers |-> "ok"]
    /\ inbox = [s \in Handlers |-> <<>>]
    /\ joined = [s \in Handlers |-> [calls |-> 0, missed |-> {}]]

PostPlay ==
    /\ now < MaxRequests
    /\ \E in \in PlayInputs :
          Commit([path |-> "/play", card_id |-> in[1], asset_files |-> in[2],
                  asset_index |-> in[3]],
                 do_POST_play(Self, in[1], in[2], in[3]))

PostNavigate ==
    /\ now < MaxRequests
    /\ \E card_id \in CardIdInputs, direction \in DirectionInputs :
          Commit([path |-> "/navigate", card_id |-> card_id,
                  direction |-> direction],
                 handle_navigation(Self, card_id, direction))

PostCardRemoved ==
    /\ now < MaxRequests
    /\ \E card_id \in CardIdInputs :
          Commit([path |-> "/card-removed", card_id |-> card_id],
                 handle_card_removal(Self, card_id))

PostUnknownCard ==
    /\ now < MaxRequests
    /\ \E card_id \in CardIdInputs :
          Commit([path |-> "/unknown-card", card_id |-> card_id],
                 handle_unknown_card(Self, card_id))

PostUpdateConfig ==
    /\ now < MaxRequests
    /\ \E config \in ConfigInputs :
          Commit([path |-> "/update-config", config |-> config],
                 handle_config_update(Self, config))

GetCurrentAsset ==
    /\ now < MaxRequests
    /\ Commit([path |-> "/current-asset"], do_GET_current_asset(Self))

Next ==
    \/ PostPlay \/ PostNavigate \/ PostCardRemoved \/ PostUnknownCard
    \/ PostUpdateConfig \/ GetCurrentAsset

Spec == Init /\ [][Next]_vars

----------------------------------------------------------------------------
(* Request threads.  RobustThreadingHTTPServer handles every request in a  *)
(* thread of its own; AssetServer takes no lock around its playback fields *)
(* or scan maps, so the statements of two handlers interleave.  A step is  *)
(* one statement (an augmented assignment is a read and a later write).    *)

ThreadPlayInputs ==
    { <<"A1", List(<<v1, i1>>), 1>>, <<"A1", List(<<v2>>), NoIndex>>,
      <<"B2", List(<<v1, gone>>), 1>> }
ThreadCalls ==
    { [path |-> "/play", card_id |-> in[1], asset_files |-> in[2],
       asset_index |-> in[3]] : in \in ThreadPlayInputs }
    \cup { [path |-> "/navigate", card_id |-> "A1", direction |-> d] :
             d \in {"next", "prev"} }
    \cup { [path |-> "/card-removed", card_id |-> "A1"],
           [path |-> "/unknown-card", card_id |-> "A1"] }

\* The fields of the server object a thread step leaves in s
Store(s) ==
    /\ assets_played' = s.assets_played
    /\ last_asset_info' = s.last_asset_info
    /\ scanned_cards' = s.scanned_cards
    /\ unknown_cards' = s.unknown_cards
    /\ card_asset_indices' = s.card_asset_indices
    /\ card_asset_files' = s.card_asset_files
    /\ current_card_id' = s.current_card_id
    /\ card_removal_timestamp' = s.card_removal_timestamp

\* Thread t goes on at statement label with the local variables f.
Goto(t, label, f) ==
    /\ pc' = [pc EXCEPT ![t] = label]
    /\ frame' = [frame EXCEPT ![t] = f]

At(t, label) == pc[t] = label

\* The local variables of play_assets_directly once its arguments are
\* normalised and the index validated (lines 306-314)
PlayFrame(req, asset_files, card_id, asset_index_in) ==
    LET asset_index == ValidateIndex(asset_index_in, Len(asset_files))
    IN [req |-> req, card_id |-> card_id, asset_files |-> asset_files,
        asset_index |-> asset_index, filename |-> asset_files[asset_index + 1],
        is_mapped |-> TRUE, ret |-> FALSE, tmp |-> 0, wrote |-> NoInfo]

\* A request arrives and its handler runs up to its first write: do_POST
\* reads the body; navigate_stored_assets reads the stored list and index.
Receive(t) ==
    /\ At(t, "idle")
    /\ now < MaxCalls
    /\ now' = now + 1
    /\ \E req \in ThreadCalls :
          LET c == req.card_id
          IN CASE req.path = "/play" ->
                    IF req.asset_files.items = <<>>
                    THEN Goto(t, "respond", [req |-> req, ret |-> FALSE])
                    ELSE Goto(t, "set_current",
                              PlayFrame(req, NormalizeAssetFiles(req.asset_files), c,
                                        IF req.asset_index = NoIndex THEN 0
                                        ELSE req.asset_index))
               [] req.path = "/navigate" ->
                    IF \/ c \notin DOMAIN card_asset_files
                       \/ NotEnoughAssets(card_asset_files[c])
                    THEN Goto(t, "respond", [req |-> req, ret |-> FALSE])
                    ELSE LET asset_files == card_asset_files[c]
                             current_index == IF c \in DOMAIN card_asset_indices
                                              THEN card_asset_indices[c] ELSE 0
                         IN Goto(t, "set_current",
                                 PlayFrame(req, asset_files, c,
                                           NewIndex(current_index, req.direction,
                                                    Len(asset_files))))
               [] req.path = "/card-removed" ->
                    Goto(t, "remove", [req |-> req, card_id |-> c, ret |-> TRUE,
                                       wrote |-> NoInfo])
               [] req.path = "/unknown-card" ->
                    Goto(t, "scan", [req |-> req, card_id |-> c,
                                     is_mapped |-> FALSE, ret |-> TRUE, tmp |-> 0])
    /\ Store(Self)
    /\ UNCHANGED <<sseVars, storage, request, response, published, completed>>

\* play_assets_directly: self.current_card_id = card_id
SetCurrentCard(t) ==
    /\ At(t, "set_current")
    /\ Store([Self EXCEPT !.current_card_id = frame[t].card_id])
    /\ Goto(t, IF frame[t].card_id # "" THEN "set_index" ELSE "check_file", frame[t])
    /\ UNCHANGED <<sseVars, storage, now, request, response, published, completed>>

\* play_assets_directly: self.card_asset_indices[card_id] = asset_index
SetIndex(t) ==
    /\ At(t, "set_index")
    /\ Store([Self EXCEPT !.card_asset_indices =
                              Put(@, frame[t].card_id, frame[t].asset_index)])
    /\ Goto(t, "set_files", frame[t])
    /\ UNCHANGED <<sseVars, storage, now, request, response, published, completed>>

\* play_assets_directly: self.card_asset_files[card_id] = asset_files
SetFiles(t) ==
    /\ At(t, "set_files")
    /\ Store([Self EXCEPT !.card_asset_files =
                              Put(@, frame[t].card_id, frame[t].asset_files)])
    /\ Goto(t, "check_file", frame[t])
    /\ UNCHANGED <<sseVars, storage, now, request, response, published, completed>>

\* play_asset: os.path.exists(asset_path)
CheckFile(t) ==
    /\ At(t, "check_file")
    /\ Goto(t, IF asset_exists(frame[t].filename) THEN "set_info" ELSE "respond",
            frame[t])
    /\ Store(Self)
    /\ UNCHANGED <<sseVars, storage, now, request, response, published, completed>>

\* play_asset: self.last_asset_info = {...}
SetInfo(t) ==
    /\ At(t, "set_info")
    /\ LET f == frame[t]
           info == [asset_file |-> f.filename,
                    asset_type |-> get_asset_type(f.filename),
                    card_id |-> f.card_id,
                    asset_index |-> f.asset_index,
                    total_assets |-> Len(f.asset_files),
                    asset_files |-> f.asset_files,
                    timestamp |-> now]
       IN /\ Store([Self EXCEPT !.last_asset_info = info])
          /\ Goto(t, IF f.card_id # "" THEN "scan" ELSE "count",
                  [f EXCEPT !.wrote = info])
    /\ UNCHANGED <<sseVars, storage, now, request, response, published, completed>>

\* Where a thread goes on after track_card_scan
AfterScan(f) == IF f.req.path = "/unknown-card" THEN "respond" ELSE "count"

\* track_card_scan on scanned_cards: a new record, or last_seen written and
\* scan_count read
Scan(t) ==
    /\ At(t, "scan")
    /\ LET f == frame[t]
           c == f.card_id
       IN IF c \notin DOMAIN scanned_cards
          THEN /\ Store([Self EXCEPT !.scanned_cards =
                            Put(@, c, [first_seen |-> now, last_seen |-> now,
                                       scan_count |-> 1, mapped |-> f.is_mapped])])
               /\ Goto(t, IF f.is_mapped THEN AfterScan(f) ELSE "unknown", f)
          ELSE /\ Store([Self EXCEPT !.scanned_cards[c].last_seen = now])
               /\ Goto(t, "scan_count",
                       [f EXCEPT !.tmp = scanned_cards[c].scan_count])
    /\ UNCHANGED <<sseVars, storage, now, request, response, published, completed>>

\* track_card_scan: scan_count written, mapped written
ScanCount(t) ==
    /\ At(t, "scan_count")
    /\ LET f == frame[t]
           c == f.card_id
       IN /\ Store([Self EXCEPT !.scanned_cards[c].scan_count = f.tmp + 1,
                                !.scanned_cards[c].mapped = f.is_mapped])
          /\ Goto(t, IF f.is_mapped THEN AfterScan(f) ELSE "unknown", f)
    /\ UNCHANGED <<sseVars, storage, now, request, response, published, completed>>

\* track_card_scan on unknown_cards ("if not is_mapped")
ScanUnknown(t) ==
    /\ At(t, "unknown")
    /\ LET f == frame[t]
           c == f.card_id
       IN IF c \notin DOMAIN unknown_cards
          THEN /\ Store([Self EXCEPT !.unknown_cards =
                            Put(@, c, [first_seen |-> now, last_seen |-> now,
                                       scan_count |-> 1])])
               /\ Goto(t, AfterScan(f), f)
          ELSE /\ Store([Self EXCEPT !.unknown_cards[c].last_seen = now])
               /\ Goto(t, "unknown_count",
                       [f EXCEPT !.tmp = unknown_cards[c].scan_count])
    /\ UNCHANGED <<sseVars, storage, now, request, response, published, completed>>

UnknownCount(t) ==
    /\ At(t, "unknown_count")
    /\ Store([Self EXCEPT !.unknown_cards[frame[t].card_id].scan_count =
                              frame[t].tmp + 1])
    /\ Goto(t, AfterScan(frame[t]), frame[t])
    /\ UNCHANGED <<sseVars, storage, now, request, response, published, completed>>

\* play_asset: self.assets_played += 1, the read
Count(t) ==
    /\ At(t, "count")
    /\ Goto(t, "count_write", [frame[t] EXCEPT !.tmp = assets_played])
    /\ Store(Self)
    /\ UNCHANGED <<sseVars, storage, now, request, response, published, completed>>

\* play_asset: self.assets_played += 1, the write; return True
CountWrite(t) ==
    /\ At(t, "count_write")
    /\ Store([Self EXCEPT !.assets_played = frame[t].tmp + 1])
    /\ Goto(t, "broadcast", [frame[t] EXCEPT !.ret = TRUE])
    /\ UNCHANGED <<sseVars, storage, now, request, response, published, completed>>

\* remove_card: current_card_id and card_removal_timestamp written
Remove(t) ==
    /\ At(t, "remove")
    /\ Store([Self EXCEPT !.current_card_id = None,
                          !.card_removal_timestamp = now])
    /\ Goto(t, "remove_info", frame[t])
    /\ UNCHANGED <<sseVars, storage, now, request, response, published, completed>>

\* remove_card: self.last_asset_info = {...}
RemoveInfo(t) ==
    /\ At(t, "remove_info")
    /\ LET info == [action |-> "card_removed", card_id |-> frame[t].card_id,
                    timestamp |-> card_removal_timestamp]
       IN /\ Store([Self EXCEPT !.last_asset_info = info])
          /\ Goto(t, "broadcast", [frame[t] EXCEPT !.wrote = info])
    /\ UNCHANGED <<sseVars, storage, now, request, response, published, completed>>

\* self.broadcast_sse_event(..., self.last_asset_info): the argument is read
\* from the object when the call is made.
Broadcast(t) ==
    /\ At(t, "broadcast")
    /\ published' = Append(published,
          [type |-> IF frame[t].req.path = "/card-removed" THEN "card_removed"
                    ELSE "asset_play",
           data |-> last_asset_info, timestamp |-> now])
    /\ Goto(t, "respond", frame[t])
    /\ Store(Self)
    /\ UNCHANGED <<sseVars, storage, now, request, response, completed>>

\* The response of the handler; asset_info = self.asset_server.last_asset_info
\* is read now, and a record without 'asset_file' raises KeyError (500).
ThreadResponse(f) ==
    LET req == f.req
        asset_info == last_asset_info
    IN CASE req.path = "/play" /\ req.asset_files.items = <<>> ->
              [status |-> 400, body |-> "No asset_files specified"]
         [] req.path \in {"/play", "/navigate"} /\ ~f.ret ->
              [status |-> 200, success |-> FALSE, card_id |-> req.card_id]
         [] req.path \in {"/play", "/navigate"} /\ f.ret ->
              IF "asset_file" \notin DOMAIN asset_info
              THEN [status |-> 500, body |-> "Internal server error"]
              ELSE [status |-> 200, success |-> TRUE, card_id |-> req.card_id,
                    asset_file |-> asset_info.asset_file,
                    asset_index |-> asset_info.asset_index,
                    total_assets |-> asset_info.total_assets]
         [] req.path = "/card-removed" ->
              [status |-> 200, success |-> f.ret, card_id |-> req.card_id,
               action |-> "card_removed"]
         [] req.path = "/unknown-card" ->
              [status |-> 200, status_text |-> "success", card_id |-> req.card_id]

Respond(t) ==
    /\ At(t, "respond")
    /\ response' = ThreadResponse(frame[t])
    /\ request' = frame[t].req
    /\ completed' = Append(completed, [req |-> frame[t].req, ret |-> frame[t].ret])
    /\ Goto(t, "idle", [req |-> [path |-> "none"]])
    /\ Store(Self)
    /\ UNCHANGED <<sseVars, storage, now, published>>

NextThreads ==
    \E t \in Threads :
        \/ Receive(t) \/ SetCurrentCard(t) \/ SetIndex(t) \/ SetFiles(t)
        \/ CheckFile(t) \/ SetInfo(t) \/ Scan(t) \/ ScanCount(t)
        \/ ScanUnknown(t) \/ UnknownCount(t) \/ Count(t) \/ CountWrite(t)
        \/ Remove(t) \/ RemoveInfo(t) \/ Broadcast(t) \/ Respond(t)

SpecThreads == Init /\ [][NextThreads]_vars

----------------------------------------------------------------------------
(* Server-Sent Events.  A subscriber is a RequestHandler whose thread runs  *)
(* handle_sse_connection; a request thread that changed the playback state *)
(* runs broadcast_sse_event, which writes to the subscribers one after the *)
(* other.  The call of an AssetServer method up to its broadcast is one    *)
(* step here.                                                              *)

\* The orders in which list(a set of handlers) may give its elements
Orderings(S) ==
    {q \in [1 .. Cardinality(S) -> S] : \A i, j \in DOMAIN q : q[i] = q[j] => i = j}

\* The response and the server object after the handler of req has run alone
HandleCall(self, req) ==
    CASE req.path = "/play" ->
           do_POST_play(self, req.card_id, req.asset_files, req.asset_index)
      [] req.path = "/navigate" ->
           handle_navigation(self, req.card_id, req.direction)
      [] req.path = "/card-removed" -> handle_card_removal(self, req.card_id)
      [] req.path = "/unknown-card" -> handle_unknown_card(self, req.card_id)

\* The request thread that handles the calls here, one call at a time
RequestThread == "t1"

\* The requests whose events the subscribers are sent
SSECalls ==
    { [path |-> "/play", card_id |-> "A1", asset_files |-> List(<<v1, i1>>),
       asset_index |-> 1],
      [path |-> "/card-removed", card_id |-> "A1"] }

\* The numbers of the calls whose broadcast, if any, has returned
BroadcastsOver ==
    {k \in 0 .. now - 1 :
        \A t \in Threads : \/ pc[t] \in {"idle", "respond"}
                           \/ "id" \notin DOMAIN frame[t]
                           \/ frame[t].id # k}

\* The subscribers in the order in which they connect
ConnectOrder == <<"s1", "s2">>

\* Faulty variant of existing_clients: every handler of the same address is
\* taken for inactive.
existing_clients_same_address(s) ==
    {e \in sse_clients : client_address[e] = client_address[s]}

\* add_sse_client: "Remove inactive connections from same client"
existing_clients(s) ==
    {e \in sse_clients : /\ client_address[e] = client_address[s]
                         /\ ~sse_connected[e]}

\* The Timer thread that start_client_cleanup starts every 30 seconds
ReaperThread == "t2"

\* cleanup_stale_connections is inside its first "with self.sse_lock:"
ReaperHoldsLock == pc[ReaperThread] = "examine"

\* handle_sse_connection: sse_connected = True, add_sse_client(self)
Register(s) ==
    /\ At(s, "new")
    /\ ~ReaperHoldsLock
    /\ \A k \in DOMAIN ConnectOrder :
          ConnectOrder[k] = s => \A j \in 1 .. k - 1 : pc[ConnectOrder[j]] # "new"
    /\ sse_connected' = [sse_connected EXCEPT ![s] = TRUE]
    /\ sse_clients' = (sse_clients \ existing_clients(s)) \cup {s}
    /\ joined' = [joined EXCEPT ![s] = [calls |-> now, missed |-> BroadcastsOver]]
    /\ pc' = [pc EXCEPT ![s] = "connection"]
    /\ Store(Self)
    /\ UNCHANGED <<socket, inbox, frame, completed, storage, now, request,
                   response, published>>

\* Faulty variant of ConnectionFrame: a new subscriber is sent the last event
\* again.
ConnectionFrame_replays_last_event ==
    [type |-> IF last_asset_info = NoInfo THEN "connection" ELSE "asset_play",
     data |-> last_asset_info, id |-> now - 1]

\* handle_sse_connection: initial_data of the 'connection' event
ConnectionFrame ==
    [type |-> "connection",
     data |-> [assets_played |-> assets_played, last_asset |-> last_asset_info]]

\* handle_sse_connection: the initial 'connection' event.  A write that
\* raises ends the handler: sse_connected = False, remove_sse_client(self).
SendConnection(s) ==
    /\ At(s, "connection")
    /\ ~sse_connected[s] \/ socket[s] # "stalled"
    /\ IF ~sse_connected[s]
       THEN /\ pc' = [pc EXCEPT ![s] = "loop"]
            /\ UNCHANGED <<sse_clients, sse_connected, inbox>>
       ELSE IF socket[s] = "ok"
       THEN /\ inbox' = [inbox EXCEPT ![s] = Append(@, ConnectionFrame)]
            /\ pc' = [pc EXCEPT ![s] = "loop"]
            /\ UNCHANGED <<sse_clients, sse_connected>>
       ELSE /\ ~ReaperHoldsLock
            /\ sse_connected' = [sse_connected EXCEPT ![s] = FALSE]
            /\ sse_clients' = sse_clients \ {s}
            /\ pc' = [pc EXCEPT ![s] = "closed"]
            /\ UNCHANGED inbox
    /\ Store(Self)
    /\ UNCHANGED <<socket, joined, frame, completed, storage, now, request,
                   response, published>>

\* The peer of a subscriber closes the connection (writes raise), or stops
\* reading it (writes do not return).  One connection fails at most.
SocketFails(s) ==
    /\ pc[s] \in {"connection", "loop"}
    /\ \A u \in Clients : socket[u] = "ok"
    /\ \E how \in {"broken", "stalled"} : socket' = [socket EXCEPT ![s] = how]
    /\ Store(Self)
    /\ UNCHANGED <<sse_clients, sse_connected, inbox, joined, pc, frame,
                   completed, storage, now, request, response, published>>

\* A request thread handles a request up to the call of broadcast_sse_event.
Call(t) ==
    /\ At(t, "idle")
    /\ now < MaxCalls
    /\ now' = now + 1
    /\ \E req \in SSECalls :
          LET r == HandleCall(Self, req)
              f == [req |-> req, id |-> now,
                    ret |-> /\ r.response.status = 200
                            /\ "success" \in DOMAIN r.response =>
                                   r.response.success]
          IN /\ Store(r.self)
             /\ IF r.self.published = <<>>
                THEN Goto(t, "respond", f)
                ELSE Goto(t, "bc_begin",
                          [req |-> f.req, id |-> f.id, ret |-> f.ret,
                           event_type |-> r.self.published[1].type])
    /\ UNCHANGED <<sseVars, completed, storage, request, response, published>>

\* Faulty variant of ClientsToNotify: only one of the clients is notified.
ClientsToNotify_one_only ==
    UNION {Orderings({s}) : s \in sse_clients}

\* "with self.sse_lock: clients_to_notify = list(self.sse_clients)"
ClientsToNotify == Orderings(sse_clients)

\* Faulty variant of AfterSend: the broadcast gives up at the first client
\* whose write failed.
AfterSend_stops_at_failure(todo, failed_clients) ==
    IF failed_clients # {} THEN "bc_cleanup"
    ELSE IF todo # <<>> THEN "bc_send"
    ELSE "respond"

\* Where the broadcast goes on when the clients todo are left to write to
AfterSend(todo, failed_clients) ==
    IF todo # <<>> THEN "bc_send"
    ELSE IF failed_clients # {} THEN "bc_cleanup"
    ELSE "respond"

\* broadcast_sse_event(event_type, self.last_asset_info) up to its loop: "if
\* not self.sse_clients: return", the message, the list of clients
BroadcastBegin(t) ==
    /\ At(t, "bc_begin")
    /\ sse_clients = {} \/ ~ReaperHoldsLock
    /\ LET f == frame[t]
       IN IF sse_clients = {}
          THEN Goto(t, "respond", f)
          ELSE \E clients_to_notify \in ClientsToNotify :
                  Goto(t, "bc_send",
                       [req |-> f.req, id |-> f.id, ret |-> f.ret,
                        message |-> [type |-> f.event_type,
                                     data |-> last_asset_info,
                                     timestamp |-> now, id |-> f.id],
                        clients_to_notify |-> clients_to_notify,
                        todo |-> clients_to_notify, failed_clients |-> {}])
    /\ Store(Self)
    /\ UNCHANGED <<sseVars, completed, storage, now, request, response, published>>

\* client.send_sse_message(sse_message) for the next client of the list: no
\* write to a client that is not sse_connected; a write that raises sets
\* sse_connected = False; a write that does not return keeps the thread.
Send(t) ==
    /\ At(t, "bc_send")
    /\ LET f == frame[t]
           client == Head(f.todo)
           rest == [f EXCEPT !.todo = Tail(@)]
       IN /\ ~sse_connected[client] \/ socket[client] # "stalled"
          /\ IF ~sse_connected[client]
             THEN /\ Goto(t, AfterSend(rest.todo, f.failed_clients), rest)
                  /\ UNCHANGED <<sse_connected, inbox>>
             ELSE IF socket[client] = "ok"
             THEN /\ inbox' = [inbox EXCEPT ![client] = Append(@, f.message)]
                  /\ Goto(t, AfterSend(rest.todo, f.failed_clients), rest)
                  /\ UNCHANGED sse_connected
             ELSE /\ sse_connected' = [sse_connected EXCEPT ![client] = FALSE]
                  /\ Goto(t, "bc_remove", f)
                  /\ UNCHANGED inbox
    /\ Store(Self)
    /\ UNCHANGED <<sse_clients, socket, joined, completed, storage, now,
                   request, response, published>>

\* send_sse_message: remove_sse_client(self) and raise; the broadcast loop
\* catches it: failed_clients.append(client)
SendFailed(t) ==
    /\ At(t, "bc_remove")
    /\ ~ReaperHoldsLock
    /\ LET f == frame[t]
           client == Head(f.todo)
           rest == [f EXCEPT !.todo = Tail(@),
                             !.failed_clients = @ \cup {client}]
       IN /\ sse_clients' = sse_clients \ {client}
          /\ Goto(t, AfterSend(rest.todo, rest.failed_clients), rest)
    /\ Store(Self)
    /\ UNCHANGED <<sse_connected, socket, inbox, joined, completed, storage,
                   now, request, response, published>>

\* "Clean up failed clients"
Cleanup(t) ==
    /\ At(t, "bc_cleanup")
    /\ ~ReaperHoldsLock
    /\ sse_clients' = sse_clients \ frame[t].failed_clients
    /\ sse_connected' = [s \in Handlers |->
                            sse_connected[s] /\ s \notin frame[t].failed_clients]
    /\ Goto(t, "respond", frame[t])
    /\ Store(Self)
    /\ UNCHANGED <<socket, inbox, joined, completed, storage, now, request,
                   response, published>>

\* What a request thread can do next
Serve(t) ==
    \/ Call(t) \/ BroadcastBegin(t) \/ Send(t) \/ SendFailed(t)
    \/ Cleanup(t) \/ Respond(t)

NextSSE ==
    \/ Serve(RequestThread)
    \/ \E s \in Clients : Register(s) \/ SendConnection(s) \/ SocketFails(s)

SpecSSE == Init /\ [][NextSSE]_vars

----------------------------------------------------------------------------
(* Media delivery.  GET /assets/<filename> runs serve_asset_file on its own *)
(* request thread: a Range header on a video goes to handle_range_request,  *)
(* everything else to serve_full_file.  The body is written chunk by chunk; *)
(* the client may close the connection at any point of the transfer.  A     *)
(* second thread handles playback requests meanwhile.                       *)

MediaThread == "t2"

\* "chunk_size = 8192"
chunk_size == 8192

\* A part of the Range header that is the empty string
Empty == -1

\* os.path.getsize(asset_path)
FileSizes == {1, 1000, 8193, 20000}

\* range_header.replace('bytes=', '').split('-'): the parts before and after
\* the dash, each a number or empty
RangeHeaders ==
    [first : {Empty, 0, 100, 500, 25000}, last : {Empty, 0, 199, 999, 19999, 30000}]

\* The request carries no Range header
NoRange == [absent |-> TRUE]

MediaInputs ==
    {[path |-> "/assets", filename |-> fn, range_header |-> h] :
        fn \in {v1, i1, gone}, h \in RangeHeaders \cup {NoRange}}

Min(a, b) == IF a < b THEN a ELSE b
Max(a, b) == IF a > b THEN a ELSE b

\* mimetypes.guess_type(asset_path), with the fallback on the extension
mime_type(filename) ==
    IF Lower(filename.ext) \in {".mp4"} THEN "video/mp4"
    ELSE IF Lower(filename.ext) \in {".mov"} THEN "video/quicktime"
    ELSE IF Lower(filename.ext) \in {".jpg", ".jpeg"} THEN "image/jpeg"
    ELSE IF Lower(filename.ext) \in {".png"} THEN "image/png"
    ELSE "application/octet-stream"

\* mime_type.startswith('video/')
IsVideo(mime) == mime \in {"video/mp4", "video/quicktime"}

\* "start = int(range_match[0]) if range_match[0] else 0; start = max(0, start)"
RangeStart(h) == Max(0, IF h.first # Empty THEN h.first ELSE 0)

\* Faulty variant of RangeEnd: the end the client asked for is served as it is.
RangeEnd_unclamped(h, file_size) ==
    IF h.last # Empty THEN h.last ELSE file_size - 1

\* "end = int(range_match[1]) if range_match[1] else file_size - 1;
\*  end = min(file_size - 1, end)"
RangeEnd(h, file_size) ==
    Min(file_size - 1, IF h.last # Empty THEN h.last ELSE file_size - 1)

\* Faulty variant of ContentLength: the byte at end is not counted.
ContentLength_exclusive(start, end) == end - start

\* "content_length = end - start + 1"
ContentLength(start, end) == end - start + 1

\* len(f.read(n)) with the file position at pos
ReadLen(pos, n, file_size) ==
    IF pos >= file_size THEN 0 ELSE Min(n, file_size - pos)

\* The local variables of the handler when the request has been read
MediaFrame(req, file_size) ==
    [req |-> req, file_size |-> file_size, status |-> 0,
     content_length |-> 0, content_range |-> NoRange,
     pos |-> 0, remaining |-> 0, chunks |-> <<>>,
     wfile |-> "ok", raised |-> FALSE]

\* serve_asset_file up to the call of the function that sends the file
GetAsset(t) ==
    /\ At(t, "idle")
    /\ frame[t].req.path = "none"
    /\ \E req \in MediaInputs, file_size \in FileSizes :
          LET f == MediaFrame(req, file_size)
          IN IF ~asset_exists(req.filename)
             THEN Goto(t, "media_done", [f EXCEPT !.status = 404])
             ELSE IF req.range_header # NoRange /\ IsVideo(mime_type(req.filename))
             THEN Goto(t, "range", f)
             ELSE Goto(t, "full", f)
    /\ Store(Self)
    /\ UNCHANGED <<sseVars, completed, storage, now, request, response, published>>

\* The client closes the connection: the writes to wfile raise from now on.
ClientDisconnects(t) ==
    /\ pc[t] \in {"range", "range_loop", "full", "full_loop"}
    /\ frame[t].wfile = "ok"
    /\ Goto(t, pc[t], [frame[t] EXCEPT !.wfile = "broken"])
    /\ Store(Self)
    /\ UNCHANGED <<sseVars, completed, storage, now, request, response, published>>

\* handle_range_request up to "with open(asset_path, 'rb')": the range, the
\* status line and the headers; f.seek(start)
RangeHeadersSent(t) ==
    /\ At(t, "range")
    /\ LET f == frame[t]
           start == RangeStart(f.req.range_header)
           end == RangeEnd(f.req.range_header, f.file_size)
           content_length == ContentLength(start, end)
       IN IF f.wfile = "broken"
          THEN Goto(t, "media_done", f)
          ELSE Goto(t, "range_loop",
                    [f EXCEPT !.status = 206,
                              !.content_length = content_length,
                              !.content_range =
                                  [start |-> start, end |-> end,
                                   size |-> f.file_size],
                              !.pos = start,
                              !.remaining = content_length])
    /\ Store(Self)
    /\ UNCHANGED <<sseVars, completed, storage, now, request, response, published>>

\* One turn of "while remaining > 0" of handle_range_request
RangeLoop(t) ==
    /\ At(t, "range_loop")
    /\ LET f == frame[t]
           chunk == ReadLen(f.pos, Min(chunk_size, f.remaining), f.file_size)
       IN IF f.remaining <= 0 \/ chunk = 0 \/ f.wfile = "broken"
          THEN Goto(t, "media_done", f)
          ELSE Goto(t, "range_loop",
                    [f EXCEPT !.chunks = Append(@, [offset |-> f.pos, len |-> chunk]),
                              !.pos = @ + chunk,
                              !.remaining = @ - chunk])
    /\ Store(Self)
    /\ UNCHANGED <<sseVars, completed, storage, now, request, response, published>>

\* serve_full_file up to "with open(asset_path, 'rb')"
FullHeadersSent(t) ==
    /\ At(t, "full")
    /\ LET f == frame[t]
       IN IF f.wfile = "broken"
          THEN Goto(t, "media_done", f)
          ELSE Goto(t, "full_loop",
                    [f EXCEPT !.status = 200, !.content_length = f.file_size])
    /\ Store(Self)
    /\ UNCHANGED <<sseVars, completed, storage, now, request, response, published>>

\* One turn of "while True" of serve_full_file
FullLoop(t) ==
    /\ At(t, "full_loop")
    /\ LET f == frame[t]
           chunk == ReadLen(f.pos, chunk_size, f.file_size)
       IN IF chunk = 0 \/ f.wfile = "broken"
          THEN Goto(t, "media_done", f)
          ELSE Goto(t, "full_loop",
                    [f EXCEPT !.chunks = Append(@, [offset |-> f.pos, len |-> chunk]),
                              !.pos = @ + chunk])
    /\ Store(Self)
    /\ UNCHANGED <<sseVars, completed, storage, now, request, response, published>>

MediaStep(t) ==
    \/ GetAsset(t) \/ ClientDisconnects(t) \/ RangeHeadersSent(t)
    \/ RangeLoop(t) \/ FullHeadersSent(t) \/ FullLoop(t)

NextMedia ==
    \/ MediaStep(MediaThread)
    \/ Call(RequestThread) \/ BroadcastBegin(RequestThread)
    \/ Respond(RequestThread)

SpecMedia == Init /\ [][NextMedia]_vars

----------------------------------------------------------------------------
(* The keep-alive loop of a subscriber.  handle_sse_connection sleeps 15   *)
(* seconds, counts, and writes a heartbeat or a status_update when one is  *)
(* due; it leaves the loop when a write of its own raises or when          *)
(* sse_connected has been set to False by another thread.  One subscriber  *)
(* runs its loop here while a request thread broadcasts to it.             *)

LoopClient == "s1"

\* The event the loop writes when heartbeat_count is n:
\* "if heartbeat_count % 4 == 0: ... elif heartbeat_count % 2 == 0: ..."
LoopEvent(n) ==
    IF n % 4 = 0 THEN "heartbeat"
    ELSE IF n % 2 = 0 THEN "status_update"
    ELSE None

\* One turn of "while self.sse_connected": time.sleep(15) returns,
\* heartbeat_count += 1, the event that is due is written with
\* send_sse_message, and the loop condition is tested again.  A write that
\* raises sets sse_connected = False and leaves the loop; a write that does
\* not return keeps the thread.
Tick(s) ==
    /\ At(s, "loop")
    /\ LET n == frame[s].heartbeat_count + 1
           event == LoopEvent(n)
       IN /\ sse_connected[s] => n <= MaxTicks
          /\ ~(sse_connected[s] /\ event # None /\ socket[s] = "stalled")
          /\ frame' = [frame EXCEPT ![s].heartbeat_count = n]
          /\ IF ~sse_connected[s]
             THEN /\ pc' = [pc EXCEPT ![s] = "finally"]
                  /\ UNCHANGED <<sse_connected, inbox>>
             ELSE IF event = None
             THEN UNCHANGED <<pc, sse_connected, inbox>>
             ELSE IF socket[s] = "ok"
             THEN /\ inbox' = [inbox EXCEPT ![s] =
                                  Append(@, [type |-> event, tick |-> n])]
                  /\ UNCHANGED <<pc, sse_connected>>
             ELSE /\ sse_connected' = [sse_connected EXCEPT ![s] = FALSE]
                  /\ pc' = [pc EXCEPT ![s] = "finally"]
                  /\ UNCHANGED inbox
    /\ Store(Self)
    /\ UNCHANGED <<sse_clients, socket, joined, completed, storage, now,
                   request, response, published>>

\* Faulty variant of Finally: the handler stays in sse_clients.
Finally_keeps_registered(s) ==
    /\ At(s, "finally")
    /\ sse_connected' = [sse_connected EXCEPT ![s] = FALSE]
    /\ pc' = [pc EXCEPT ![s] = "closed"]
    /\ Store(Self)
    /\ UNCHANGED <<sse_clients, socket, inbox, joined, frame, completed,
                   storage, now, request, response, published>>

\* remove_sse_client(self) of a send_sse_message that raised, and "finally:
\* self.sse_connected = False; self.asset_server.remove_sse_client(self)"
Finally(s) ==
    /\ At(s, "finally")
    /\ ~ReaperHoldsLock
    /\ sse_connected' = [sse_connected EXCEPT ![s] = FALSE]
    /\ sse_clients' = sse_clients \ {s}
    /\ pc' = [pc EXCEPT ![s] = "closed"]
    /\ Store(Self)
    /\ UNCHANGED <<socket, inbox, joined, frame, completed, storage, now,
                   request, response, published>>

NextLoop ==
    \/ Serve(RequestThread)
    \/ Register(LoopClient) \/ SendConnection(LoopClient)
    \/ SocketFails(LoopClient)
    \/ Tick(LoopClient) \/ Finally(LoopClient)

\* The handler thread of the subscriber is scheduled: its sleep returns and
\* its finally clause runs.
SpecLoop ==
    /\ Init /\ [][NextLoop]_vars
    /\ WF_vars(SendConnection(LoopClient))
    /\ WF_vars(Tick(LoopClient)) /\ WF_vars(Finally(LoopClient))

----------------------------------------------------------------------------
(* The reaper.  cleanup_stale_connections runs on a Timer thread: with     *)
(* sse_lock held it examines a copy of sse_clients, one handler after the  *)
(* other, and collects the stale ones; then it takes the lock again and    *)
(* discards them.  Two subscribers run their loops meanwhile.              *)

\* Faulty variant of IsStale: a handler whose flush raised is kept.
IsStale_ignores_flush(connected, flush_raises) == ~connected

\* "if not client.sse_connected: stale_clients.append(client)
\*  elif hasattr(client, 'wfile'): client.wfile.flush()", the flush raising
\* one of the exceptions of the except clause
IsStale(connected, flush_raises) == ~connected \/ flush_raises

\* Faulty variant of FlushReturns: the flush waits for a peer that has
\* stopped reading.
FlushReturns_unless_stalled(client) == socket[client] # "stalled"

\* client.wfile.flush() comes back: the wfile of a request handler is
\* unbuffered, every write has gone to the socket already.
FlushReturns(client) == TRUE

\* "with self.sse_lock: for client in self.sse_clients.copy():"
ReaperStart(t) ==
    /\ pc[t] \in {"idle", "reaped"}
    /\ \E todo \in Orderings(sse_clients) :
          Goto(t, IF todo = <<>> THEN "stale" ELSE "examine",
               [req |-> [path |-> "timer"], todo |-> todo, stale_clients |-> {},
                examined |-> [c \in Clients |-> "not"]])
    /\ Store(Self)
    /\ UNCHANGED <<sseVars, completed, storage, now, request, response, published>>

\* The body of the for loop for the next client of the copy.  The flush of
\* a connection the peer has closed may raise or not; what the reaper saw
\* is kept in examined.
ReaperExamine(t) ==
    /\ At(t, "examine")
    /\ LET f == frame[t]
           client == Head(f.todo)
       IN /\ sse_connected[client] => FlushReturns(client)
          /\ \E flush_raises \in IF sse_connected[client] /\ socket[client] = "broken"
                               THEN BOOLEAN ELSE {FALSE} :
             Goto(t, IF Tail(f.todo) = <<>> THEN "stale" ELSE "examine",
                  [f EXCEPT !.todo = Tail(@),
                            !.stale_clients =
                                IF IsStale(sse_connected[client], flush_raises)
                                THEN @ \cup {client} ELSE @,
                            !.examined[client] =
                                IF ~sse_connected[client] THEN "disconnected"
                                ELSE IF flush_raises THEN "flush_failed"
                                ELSE "ok"])
    /\ Store(Self)
    /\ UNCHANGED <<sseVars, completed, storage, now, request, response, published>>

\* "if stale_clients: with self.sse_lock: for client in stale_clients:
\*  self.sse_clients.discard(client); client.sse_connected = False"
ReaperDiscard(t) ==
    /\ At(t, "stale")
    /\ sse_clients' = sse_clients \ frame[t].stale_clients
    /\ sse_connected' = [c \in Handlers |->
                            sse_connected[c] /\ c \notin frame[t].stale_clients]
    /\ Goto(t, "reaped", frame[t])
    /\ Store(Self)
    /\ UNCHANGED <<socket, inbox, joined, completed, storage, now, request,
                   response, published>>

NextReaper ==
    \/ ReaperStart(ReaperThread) \/ ReaperExamine(ReaperThread)
    \/ ReaperDiscard(ReaperThread)
    \/ \E s \in Clients :
          \/ Register(s) \/ SendConnection(s) \/ SocketFails(s)
          \/ Tick(s) \/ Finally(s)

SpecReaper == Init /\ [][NextReaper]_vars

----------------------------------------------------------------------------
(* Registration.  Three handlers of /events, two of one address and one of *)
(* another, register, run their loops and lose their connections.          *)

NextRegister ==
    \E s \in Handlers :
        \/ Register(s) \/ SendConnection(s) \/ SocketFails(s)
        \/ Tick(s) \/ Finally(s)

SpecRegister == Init /\ [][NextRegister]_vars

----------------------------------------------------------------------------
(* Writes in progress.  self.wfile.write(message) of send_sse_message is   *)
(* a call that takes time: here it begins in one step and returns in       *)
(* another, for the broadcast of a request thread and for the loop of the  *)
(* subscriber, on connections that stay open.                              *)

\* broadcast_sse_event: client.send_sse_message(sse_message) is entered for
\* the next client of the list, and wfile.write has begun.
SendStart(t) ==
    /\ At(t, "bc_send")
    /\ sse_connected[Head(frame[t].todo)]
    /\ Goto(t, "bc_writing", frame[t])
    /\ Store(Self)
    /\ UNCHANGED <<sseVars, completed, storage, now, request, response, published>>

\* wfile.write and wfile.flush of the broadcast have returned.
SendEnd(t) ==
    /\ At(t, "bc_writing")
    /\ LET f == frame[t]
           rest == [f EXCEPT !.todo = Tail(@)]
       IN /\ inbox' = [inbox EXCEPT ![Head(f.todo)] = Append(@, f.message)]
          /\ Goto(t, AfterSend(rest.todo, f.failed_clients), rest)
    /\ Store(Self)
    /\ UNCHANGED <<sse_clients, sse_connected, socket, joined, completed,
                   storage, now, request, response, published>>

\* The loop of the subscriber wakes up and counts; when an event is due,
\* send_sse_message is entered and wfile.write has begun.
TickStart(s) ==
    /\ At(s, "loop")
    /\ frame[s].heartbeat_count < MaxTicks
    /\ LET n == frame[s].heartbeat_count + 1
       IN /\ frame' = [frame EXCEPT ![s].heartbeat_count = n]
          /\ pc' = [pc EXCEPT ![s] = IF LoopEvent(n) = None THEN "loop" ELSE "writing"]
    /\ Store(Self)
    /\ UNCHANGED <<sseVars, completed, storage, now, request, response, published>>

\* wfile.write and wfile.flush of the loop have returned.
TickEnd(s) ==
    /\ At(s, "writing")
    /\ LET n == frame[s].heartbeat_count
       IN inbox' = [inbox EXCEPT ![s] = Append(@, [type |-> LoopEvent(n), tick |-> n])]
    /\ pc' = [pc EXCEPT ![s] = "loop"]
    /\ Store(Self)
    /\ UNCHANGED <<sse_clients, sse_connected, socket, joined, frame, completed,
                   storage, now, request, response, published>>

NextWrite ==
    \/ Call(RequestThread) \/ BroadcastBegin(RequestThread)
    \/ SendStart(RequestThread) \/ SendEnd(RequestThread)
    \/ Respond(RequestThread)
    \/ Register(LoopClient) \/ SendConnection(LoopClient)
    \/ TickStart(LoopClient) \/ TickEnd(LoopClient)

SpecWrite == Init /\ [][NextWrite]_vars

----------------------------------------------------------------------------
(* sse_lock.  A request thread that broadcasts, a handler of /events and   *)
(* the reaper take the lock in turn.  A step that is one "with self.sse_lock:" *)
(* block waits while the reaper is inside its block.  The threads are      *)
(* scheduled, and a thread that finds the lock free again and again gets   *)
(* it.                                                                     *)

NextLock ==
    \/ Serve(RequestThread)
    \/ Register(LoopClient) \/ SendConnection(LoopClient)
    \/ SocketFails(LoopClient)
    \/ ReaperStart(ReaperThread) \/ ReaperExamine(ReaperThread)
    \/ ReaperDiscard(ReaperThread)

SpecLock ==
    /\ Init /\ [][NextLock]_vars
    /\ WF_vars(ReaperExamine(ReaperThread)) /\ WF_vars(ReaperDiscard(ReaperThread))
    /\ SF_vars(SendConnection(LoopClient))
    /\ SF_vars(BroadcastBegin(RequestThread))
    /\ SF_vars(SendFailed(RequestThread)) /\ SF_vars(Cleanup(RequestThread))

----------------------------------------------------------------------------
(* The scanner client.  ExhibitionClientPico.run polls the RFID reader; a  *)
(* card it has not processed yet goes to process_card, which posts /play   *)
(* for a card of its CARD_ASSETS and /unknown-card for any other; after    *)
(* REMOVAL_THRESHOLD polls in a row without a card it posts /card-removed. *)
(* The server handles each request before the client goes on.              *)

\* "self.REMOVAL_THRESHOLD = 15"
REMOVAL_THRESHOLD == 15

\* config.CARD_ASSETS of the client: A1 is mapped, B2 is not
card_assets == [c \in {"A1"} |-> <<v1>>]

\* Faulty variant of should_process: every successful read is processed.
should_process_every_read(card_id, current_card, card_processed) == TRUE

\* "if card_id != self.current_card: should_process = True
\*  elif not self.card_processed: should_process = True"
should_process(card_id, current_card, card_processed) ==
    card_id # current_card \/ ~card_processed

\* Faulty variant of RemovalDue: the removal is signalled whether or not a
\* card is marked present.
RemovalDue_ignores_present(consecutive_failures, card_present) ==
    consecutive_failures >= REMOVAL_THRESHOLD

\* "if self.consecutive_failures >= self.REMOVAL_THRESHOLD and self.card_present"
RemovalDue(consecutive_failures, card_present) ==
    consecutive_failures >= REMOVAL_THRESHOLD /\ card_present

\* The body of the request a trigger_* function of the client posts: card_id
\* and timestamp, and nothing else
ClientRequest(path, card_id) ==
    IF path = "/play"
    THEN [path |-> path, card_id |-> card_id, asset_files |-> List(<<>>),
          asset_index |-> NoIndex]
    ELSE [path |-> path, card_id |-> card_id]

\* One turn of "while True" of run: the reader gives a card id or none
\* (no card, or a failed UID read); process_card and its request; the
\* removal check and its request.
Poll ==
    \E card_id \in Cards \cup {None} :
        LET f == frame[Scanner]
            consecutive_failures ==
                IF card_id = None THEN f.consecutive_failures + 1 ELSE 0
            process == /\ card_id # None
                       /\ should_process(card_id, f.current_card, f.card_processed)
            card_present == process \/ f.card_present
            removal == RemovalDue(consecutive_failures, card_present)
            current_card == IF process THEN card_id ELSE f.current_card
            req == IF process
                   THEN ClientRequest(IF card_id \in DOMAIN card_assets
                                      THEN "/play" ELSE "/unknown-card", card_id)
                   ELSE IF removal /\ current_card # None
                   THEN ClientRequest("/card-removed", current_card)
                   ELSE [path |-> "none"]
        IN /\ consecutive_failures <= MaxFailures
           /\ frame' = [frame EXCEPT ![Scanner] =
                           [current_card |-> current_card,
                            card_present |-> card_present /\ ~removal,
                            card_processed |-> (process \/ f.card_processed) /\ ~removal,
                            consecutive_failures |-> consecutive_failures,
                            card_id |-> card_id]]
           /\ IF req.path = "none"
              THEN /\ Store(Self)
                   /\ UNCHANGED <<now, request, response, published>>
              ELSE /\ now < MaxRequests
                   /\ LET r == HandleCall(Self, req)
                      IN /\ Store(r.self)
                         /\ response' = r.response
                         /\ published' = r.self.published
                   /\ request' = req
                   /\ now' = now + 1
           /\ UNCHANGED <<sseVars, storage, pc, completed>>

NextClient == Poll

SpecClient == Init /\ [][NextClient]_vars

----------------------------------------------------------------------------
(* Properties *)

Succeeded(resp) == resp.status = 200 /\ "success" \in DOMAIN resp /\ resp.success
Failed(resp) == resp.status = 200 /\ "success" \in DOMAIN resp /\ ~resp.success
HasSnapshot(c) == c \in DOMAIN card_asset_files
AllStored(files) == \A k \in 1 .. Len(files) : asset_exists(files[k])

(* C1: in every reachable state every card with a stored asset list has a  *)
(* stored index, and that index is at least 0 and less than the length of  *)
(* the list.                                                                *)
IndexWithinSnapshot ==
    \A c \in DOMAIN card_asset_files :
        /\ c \in DOMAIN card_asset_indices
        /\ 0 <= card_asset_indices[c]
        /\ card_asset_indices[c] < Len(card_asset_files[c])

\* A /play with an explicit index beyond the list has just been handled for
\* a card, and the card has a stored list.
IndexWithinSnapshotWitness ==
    /\ request.path = "/play"
    /\ request.card_id \in Cards
    /\ request.asset_files.items # <<>>
    /\ request.asset_index >= Len(request.asset_files.items)
    /\ HasSnapshot(request.card_id)

RECURSIVE NavigateTimes(_, _, _, _)
\* The server object after n /navigate requests in a row for one card
NavigateTimes(self, card_id, direction, n) ==
    IF n = 0 THEN self
    ELSE NavigateTimes(handle_navigation(self, card_id, direction).self,
                       card_id, direction, n - 1)

(* C2: for every card whose stored list of N assets is all in storage, N   *)
(* navigations next in a row, and N navigations prev in a row, leave the   *)
(* card's index where it was.                                              *)
CyclicNavigation ==
    \A c \in DOMAIN card_asset_files :
        AllStored(card_asset_files[c]) =>
            \A d \in {"next", "prev"} :
                NavigateTimes(Self, c, d, Len(card_asset_files[c]))
                    .card_asset_indices[c] = card_asset_indices[c]

\* A navigation has succeeded on a card with at least two stored assets and
\* has come back to the first of them.
CyclicNavigationWitness ==
    /\ request.path = "/navigate"
    /\ Succeeded(response)
    /\ HasSnapshot(request.card_id)
    /\ AllStored(card_asset_files[request.card_id])
    /\ Len(card_asset_files[request.card_id]) >= 2
    /\ card_asset_indices[request.card_id] = 0

(* C3: a successful navigation on a list of len >= 2 at index i stores     *)
(* i+1 (0 after len-1) for next and i-1 (len-1 before 0) for prev, and     *)
(* answers with the file at the new index, the new index and len; a /play  *)
(* of [v1, i1] for A1 without index answers {v1, 0, 2}.                    *)
NavigateResult ==
    [][ /\ (request'.path = "/navigate" /\ Succeeded(response')) =>
            LET c == request'.card_id
                files == card_asset_files[c]
                len == Len(files)
                i == card_asset_indices[c]
                new == IF request'.direction = "next"
                       THEN (IF i = len - 1 THEN 0 ELSE i + 1)
                       ELSE (IF i = 0 THEN len - 1 ELSE i - 1)
            IN /\ len >= 2
               /\ card_asset_indices'[c] = new
               /\ card_asset_files'[c] = files
               /\ response'.asset_file = files[new + 1]
               /\ response'.asset_index = new
               /\ response'.total_assets = len
        /\ (request' = [path |-> "/play", card_id |-> "A1",
                        asset_files |-> List(<<v1, i1>>),
                        asset_index |-> NoIndex]) =>
               /\ Succeeded(response')
               /\ response'.asset_file = v1
               /\ response'.asset_index = 0
               /\ response'.total_assets = 2
      ]_vars

\* The example run: play [v1, i1], next to i1, next wraps to v1.
NavigateResultWitness ==
    /\ request = [path |-> "/navigate", card_id |-> "A1", direction |-> "next"]
    /\ Succeeded(response)
    /\ response.asset_file = v1
    /\ response.asset_index = 0
    /\ response.total_assets = 2
    /\ assets_played = 3

\* The index a /play body asks for: asset_index, or 0 when it has none
RequestedIndex(req) == IF req.asset_index = NoIndex THEN 0 ELSE req.asset_index
IndexInRange(req) ==
    0 <= RequestedIndex(req) /\ RequestedIndex(req) < Len(req.asset_files.items)

EmptyPlayRejected ==
    [][ (request'.path = "/play" /\ request'.asset_files.items = <<>>) =>
            /\ response'.status = 400
            /\ published' = <<>>
            /\ UNCHANGED <<current_card_id, card_asset_indices, card_asset_files,
                           assets_played, last_asset_info, scanned_cards,
                           unknown_cards>>
      ]_vars

\* An empty /play has been refused for a card that was playing.
EmptyPlayRejectedWitness ==
    /\ request.path = "/play"
    /\ request.asset_files.items = <<>>
    /\ response.status = 400
    /\ request.card_id \in Cards
    /\ current_card_id = request.card_id
    /\ assets_played > 0

(* C6: when a card with a stored position i is removed and the next        *)
(* request plays the same card with the same list and no explicit index,   *)
(* the card's index is again i and the answer names the asset at i.        *)
ResumeAfterRemove ==
    [][ (/\ request.path = "/card-removed"
         /\ HasSnapshot(request.card_id)
         /\ request'.path = "/play"
         /\ request'.card_id = request.card_id
         /\ request'.asset_index = NoIndex
         /\ request'.asset_files.items = card_asset_files[request.card_id]) =>
            LET c == request.card_id
                i == card_asset_indices[c]
            IN /\ card_asset_indices'[c] = i
               /\ Succeeded(response') =>
                     /\ response'.asset_index = i
                     /\ response'.asset_file = card_asset_files[c][i + 1]
      ]_vars

(* C7: a /card-removed for a card id succeeds, sets current_card_id to     *)
(* None, sets last_asset_info to the removal record of that card with the  *)
(* time of removal, broadcasts exactly one card_removed event carrying     *)
(* that record, and leaves every index and stored list, the play counter   *)
(* and both scan maps as they were.                                        *)
RemoveEffect ==
    [][ (request'.path = "/card-removed" /\ request'.card_id # "") =>
            /\ Succeeded(response')
            /\ current_card_id' = None
            /\ last_asset_info' = [action |-> "card_removed",
                                   card_id |-> request'.card_id,
                                   timestamp |-> now]
            /\ card_removal_timestamp' = now
            /\ Len(published') = 1
            /\ published'[1].type = "card_removed"
            /\ published'[1].data = last_asset_info'
            /\ UNCHANGED <<card_asset_indices, card_asset_files, assets_played,
                           scanned_cards, unknown_cards>>
      ]_vars

\* A card that had been played at position 1 has been removed.
RemoveEffectWitness ==
    /\ request.path = "/card-removed"
    /\ Succeeded(response)
    /\ HasSnapshot(request.card_id)
    /\ card_asset_indices[request.card_id] = 1
    /\ request.card_id \in DOMAIN scanned_cards
    /\ current_card_id = None

(* C8: a /navigate for a card without a stored list, or with a stored list *)
(* of at most one asset, does not succeed, and leaves indices, stored      *)
(* lists, current card, play counter and last_asset_info as they were and  *)
(* broadcasts nothing.                                                     *)
NavigateRejected ==
    [][ (/\ request'.path = "/navigate"
         /\ \/ ~HasSnapshot(request'.card_id)
            \/ Len(card_asset_files[request'.card_id]) <= 1) =>
            /\ ~Succeeded(response')
            /\ request'.card_id # "" /\ request'.direction \in {"next", "prev"}
                  => Failed(response')
            /\ published' = <<>>
            /\ UNCHANGED <<card_asset_indices, card_asset_files, current_card_id,
                           assets_played, last_asset_info>>
      ]_vars

\* A navigation has been refused for the playing card, which has one asset.
NavigateRejectedWitness ==
    /\ request.path = "/navigate"
    /\ request.direction \in {"next", "prev"}
    /\ Failed(response)
    /\ HasSnapshot(request.card_id)
    /\ Len(card_asset_files[request.card_id]) = 1
    /\ current_card_id = request.card_id

(* C9: a successful /play for a non-empty card id stores the given list    *)
(* and the given index for the card, makes it the current card, adds       *)
(* exactly 1 to the play counter, leaves the card's scan record mapped     *)
(* with scan_count one higher (or created with 1), sets last_asset_info to *)
(* that card, file and index, and broadcasts exactly one asset_play event. *)
PlayEffect ==
    [][ (/\ request'.path = "/play"
         /\ request'.card_id # ""
         /\ Succeeded(response')) =>
            LET c == request'.card_id
                files == request'.asset_files.items
                index == RequestedIndex(request')
            IN /\ card_asset_files'[c] = files
               /\ card_asset_indices'[c] = index
               /\ current_card_id' = c
               /\ assets_played' = assets_played + 1
               /\ scanned_cards'[c].mapped
               /\ scanned_cards'[c].scan_count =
                     IF c \in DOMAIN scanned_cards
                     THEN scanned_cards[c].scan_count + 1 ELSE 1
               /\ last_asset_info'.card_id = c
               /\ last_asset_info'.asset_index = index
               /\ last_asset_info'.asset_file = files[index + 1]
               /\ Len(published') = 1
               /\ published'[1].type = "asset_play"
               /\ published'[1].data = last_asset_info'
      ]_vars

(* C10: a /play whose selected file (the one at the requested index, or at *)
(* 0 without one) is not in storage is answered as failed, broadcasts      *)
(* nothing, and leaves the play counter, both scan maps and                *)
(* last_asset_info as they were.                                           *)
MissingFileRejected ==
    [][ (/\ request'.path = "/play"
         /\ request'.asset_files.items # <<>>
         /\ IndexInRange(request')
         /\ ~asset_exists(request'.asset_files.items[RequestedIndex(request') + 1])) =>
            /\ Failed(response')
            /\ published' = <<>>
            /\ UNCHANGED <<assets_played, scanned_cards, unknown_cards,
                           last_asset_info>>
      ]_vars

\* A /play of a missing file has failed after an earlier play of the card.
MissingFileRejectedWitness ==
    /\ request.path = "/play"
    /\ request.asset_files.items # <<>>
    /\ IndexInRange(request)
    /\ ~asset_exists(request.asset_files.items[RequestedIndex(request) + 1])
    /\ Failed(response)
    /\ request.card_id \in DOMAIN scanned_cards
    /\ last_asset_info # NoInfo

\* What GET /current-asset answers in the present state
GetCurrent == do_GET_current_asset(Self).response.body
PlayedOrNavigated(req, resp) ==
    req.path \in {"/play", "/navigate"} /\ Succeeded(resp)

(* C11: GET /current-asset answers "none" on a fresh server; a successful  *)
(* play or navigation makes it answer that call's card, file and index, a  *)
(* removal makes it answer the removal record of that card, and every      *)
(* other request (failed calls, unknown-card, config update, the GET       *)
(* itself) leaves the answer as it was.                                    *)
CurrentReflectsLastChange ==
    [][ /\ now = 0 => GetCurrent = [asset_file |-> None]
        /\ request'.path = "/current-asset" => response'.body = GetCurrent
        /\ IF PlayedOrNavigated(request', response')
           THEN LET c == request'.card_id
                    index == IF c # "" THEN card_asset_indices'[c] ELSE 0
                    files == IF c # "" THEN card_asset_files'[c]
                             ELSE request'.asset_files.items
                IN /\ GetCurrent'.card_id = c
                   /\ GetCurrent'.asset_index = index
                   /\ GetCurrent'.asset_file = files[index + 1]
                   /\ GetCurrent'.timestamp = now
           ELSE IF request'.path = "/card-removed" /\ Succeeded(response')
           THEN GetCurrent' = [action |-> "card_removed",
                               card_id |-> request'.card_id,
                               timestamp |-> now]
           ELSE GetCurrent' = GetCurrent
      ]_vars

\* After a play and the removal of the card, the GET answers the removal.
CurrentReflectsLastChangeWitness ==
    /\ request.path = "/current-asset"
    /\ "action" \in DOMAIN response.body
    /\ response.body.action = "card_removed"
    /\ response.body.card_id \in DOMAIN card_asset_files
    /\ assets_played = 1

(* C12: in every reachable state no card whose record in scanned_cards has *)
(* mapped = TRUE is a key of unknown_cards.                                *)
MappedNotUnknown ==
    \A c \in DOMAIN scanned_cards :
        scanned_cards[c].mapped => c \notin DOMAIN unknown_cards

\* The request is a recorded sighting of card c
Sighting(req, resp, c) ==
    /\ c # ""
    /\ req.path # "none"
    /\ "card_id" \in DOMAIN req
    /\ req.card_id = c
    /\ req.path = "/unknown-card" \/ PlayedOrNavigated(req, resp)

(* C13: no request deletes a record of scanned_cards, lowers its           *)
(* scan_count or changes its first_seen; a recorded sighting of a card     *)
(* (unknown-card, successful play or navigation) raises its scan_count by  *)
(* exactly 1, or creates the record with scan_count 1.                     *)
ScanRecordsKept ==
    [][ /\ \A c \in DOMAIN scanned_cards :
              /\ c \in DOMAIN scanned_cards'
              /\ scanned_cards'[c].scan_count >= scanned_cards[c].scan_count
              /\ scanned_cards'[c].first_seen = scanned_cards[c].first_seen
        /\ \A c \in Cards :
              Sighting(request', response', c) =>
                  /\ c \in DOMAIN scanned_cards'
                  /\ scanned_cards'[c].scan_count =
                        IF c \in DOMAIN scanned_cards
                        THEN scanned_cards[c].scan_count + 1 ELSE 1
      ]_vars

\* A card first seen as unknown, and later played, has been sighted 3 times.
ScanRecordsKeptWitness ==
    \E c \in DOMAIN scanned_cards :
        /\ scanned_cards[c].scan_count = 3
        /\ scanned_cards[c].first_seen = 0
        /\ scanned_cards[c].mapped
        /\ c \in DOMAIN unknown_cards

(* C14: a config update whose config loads sets mapped of every tracked    *)
(* card to whether the card is a key of CARD_ASSETS, removes from          *)
(* unknown_cards exactly the tracked cards that are keys, and changes no   *)
(* scan_count, first_seen or last_seen of scanned_cards nor any record     *)
(* left in unknown_cards.                                                  *)
RefreshEffect ==
    [][ (request'.path = "/update-config" /\ request'.config.loadable) =>
            LET keys == request'.config.keys
            IN /\ DOMAIN scanned_cards' = DOMAIN scanned_cards
               /\ \A c \in DOMAIN scanned_cards :
                     /\ scanned_cards'[c].mapped = (c \in keys)
                     /\ scanned_cards'[c].scan_count = scanned_cards[c].scan_count
                     /\ scanned_cards'[c].first_seen = scanned_cards[c].first_seen
                     /\ scanned_cards'[c].last_seen = scanned_cards[c].last_seen
               /\ DOMAIN unknown_cards' =
                     DOMAIN unknown_cards \ (DOMAIN scanned_cards \cap keys)
               /\ \A c \in DOMAIN unknown_cards' :
                     unknown_cards'[c] = unknown_cards[c]
      ]_vars

\* B2 was only ever seen as unknown, twice, and a config with B2 as a key
\* has been loaded: B2 is mapped, out of unknown_cards, scan_count still 2.
RefreshEffectWitness ==
    /\ request.path = "/update-config"
    /\ request.config.loadable
    /\ "B2" \in request.config.keys
    /\ card_asset_files = EmptyMap
    /\ assets_played = 0
    /\ "B2" \in DOMAIN scanned_cards
    /\ scanned_cards["B2"].mapped
    /\ scanned_cards["B2"].scan_count = 2
    /\ "B2" \notin DOMAIN unknown_cards

\* Thread t has written part of what its call writes to the playback fields
\* or the scan maps, and has not yet written the rest.
InMutation(t) ==
    \/ pc[t] \in {"set_index", "set_files", "check_file", "set_info",
                  "scan_count", "unknown_count", "count", "count_write",
                  "remove_info"}
    \/ pc[t] = "scan" /\ frame[t].req.path # "/unknown-card"
    \/ pc[t] = "unknown"

\* The server object of Init
InitialServer ==
    [assets_played |-> 0, last_asset_info |-> NoInfo,
     scanned_cards |-> EmptyMap, unknown_cards |-> EmptyMap,
     card_asset_indices |-> EmptyMap, card_asset_files |-> EmptyMap,
     current_card_id |-> None, card_removal_timestamp |-> None,
     published |-> <<>>]

Untimed(info) ==
    IF info = NoInfo THEN info
    ELSE [k \in DOMAIN info \ {"timestamp"} |-> info[k]]

\* The server object without the readings of the clock
View(self) ==
    [assets_played |-> self.assets_played,
     last_asset_info |-> Untimed(self.last_asset_info),
     scanned_cards |-> [c \in DOMAIN self.scanned_cards |->
                          <<self.scanned_cards[c].scan_count,
                            self.scanned_cards[c].mapped>>],
     unknown_cards |-> [c \in DOMAIN self.unknown_cards |->
                          self.unknown_cards[c].scan_count],
     card_asset_indices |-> self.card_asset_indices,
     card_asset_files |-> self.card_asset_files,
     current_card_id |-> self.current_card_id]

RECURSIVE SequentialOutcomes(_, _)
\* The server objects reached by handling the answered requests numbered in
\* todo one after another, in every order
SequentialOutcomes(self, todo) ==
    IF todo = {} THEN {View(self)}
    ELSE UNION { SequentialOutcomes(HandleCall(self, completed[k].req).self, todo \ {k}) :
                   k \in todo }

AllIdle == \A t \in Threads : pc[t] = "idle"

\* No two request threads are inside their mutation at the same time.
NoTwoInMutation ==
    \A t, u \in Threads : t # u => ~(InMutation(t) /\ InMutation(u))

\* With every request answered, the server object is one that handling the
\* requests one after another, in some order, produces.
Serializable ==
    AllIdle => View(Self) \in SequentialOutcomes(InitialServer, 1 .. Len(completed))

(* C15: with requests handled in concurrent threads, no two threads are    *)
(* inside their mutation of the playback fields and scan maps at the same  *)
(* time, and whenever every request is answered the server object equals   *)
(* the one some sequential order of the answered requests produces.        *)
MutationsExclusive == NoTwoInMutation /\ Serializable

\* The frames of playback events among those written to subscriber s
PlaybackFrames(s) ==
    {i \in DOMAIN inbox[s] :
        inbox[s][i].type \in {"asset_play", "navigation", "card_removed"}}

\* Subscriber s was registered, connected and readable when the first call
\* was made, and still is.
SubscribedFromStart(s) ==
    /\ pc[s] # "new"
    /\ joined[s].calls = 0
    /\ s \in sse_clients
    /\ sse_connected[s]
    /\ socket[s] = "ok"

\* The only call made so far is a successful /play whose broadcast has returned.
OnePlayBroadcast ==
    /\ now = 1
    /\ pc[RequestThread] = "respond"
    /\ frame[RequestThread].req.path = "/play"
    /\ frame[RequestThread].ret

(* C16: when one successful play is the only call made and its broadcast   *)
(* has returned, every two subscribers that were registered and connected  *)
(* when it was made have each been written exactly one asset_play frame,   *)
(* and the two frames are equal.                                           *)
BothReceiveOnce ==
    (OnePlayBroadcast /\ \A s \in Clients : SubscribedFromStart(s)) =>
        \A s, u \in Clients :
            /\ Cardinality(PlaybackFrames(s)) = 1
            /\ \A i \in PlaybackFrames(s), j \in PlaybackFrames(u) :
                  /\ inbox[s][i].type = "asset_play"
                  /\ inbox[s][i] = inbox[u][j]

\* Both subscribers were there for the play and hold its frame.
BothReceiveOnceWitness ==
    /\ OnePlayBroadcast
    /\ \A s \in Clients :
          /\ SubscribedFromStart(s)
          /\ Len(inbox[s]) = 2
          /\ \E i \in PlaybackFrames(s) : inbox[s][i].data = last_asset_info

(* C17: with requests handled in concurrent threads, the event a thread    *)
(* hands to broadcast_sse_event carries the record that thread's own       *)
(* mutation wrote to last_asset_info.                                      *)
PayloadIsOwnRecord ==
    [][ \A t \in Threads :
          (pc[t] = "broadcast" /\ pc'[t] = "respond") =>
              published'[Len(published')].data = frame[t].wrote ]_vars

\* The broadcast of the request thread has returned.
BroadcastReturned ==
    /\ pc[RequestThread] = "respond"
    /\ "clients_to_notify" \in DOMAIN frame[RequestThread]

(* C18: when a broadcast has returned, the subscribers whose write failed  *)
(* are out of sse_clients and not connected, every other subscriber of the *)
(* list has been written the event unless it is no longer connected, and   *)
(* the call is answered with success; a registered subscriber is out of    *)
(* sse_clients only if its connection is broken; and while no connection   *)
(* is stalled a request thread inside a call can always go on.             *)
FailedWriteRemovesOnlyThat ==
    /\ BroadcastReturned =>
          LET f == frame[RequestThread]
              notified == {f.clients_to_notify[i] : i \in DOMAIN f.clients_to_notify}
          IN /\ f.failed_clients \cap sse_clients = {}
             /\ \A s \in f.failed_clients : ~sse_connected[s]
             /\ \A s \in notified \ f.failed_clients :
                   \/ \E i \in DOMAIN inbox[s] : inbox[s][i] = f.message
                   \/ ~sse_connected[s]
             /\ f.ret
             /\ Succeeded(ThreadResponse(f))
    /\ \A s \in Clients :
          (pc[s] # "new" /\ s \notin sse_clients) => socket[s] = "broken"
    /\ (pc[RequestThread] # "idle" /\ \A s \in Clients : socket[s] # "stalled") =>
          ENABLED Serve(RequestThread)

\* The write to one subscriber failed in the first broadcast; the second
\* broadcast has returned and the other subscriber holds both events.
FailedWriteRemovesOnlyThatWitness ==
    /\ BroadcastReturned
    /\ now = 2
    /\ \E s, u \in Clients :
          /\ pc[s] = "loop" /\ socket[s] = "broken" /\ s \notin sse_clients
          /\ s \notin {frame[RequestThread].clients_to_notify[i] :
                          i \in DOMAIN frame[RequestThread].clients_to_notify}
          /\ u \in sse_clients
          /\ {inbox[u][i].id : i \in PlaybackFrames(u)} = {0, 1}

(* C19: a request thread inside a call can always take its next step, also *)
(* when the connection of a subscriber is stalled.                         *)
StalledDoesNotBlock ==
    pc[RequestThread] # "idle" => ENABLED Serve(RequestThread)

(* C20: no subscriber has been written a playback event (asset_play,       *)
(* navigation, card_removed) of a call whose broadcast had returned when   *)
(* the subscriber registered.                                              *)
NoReplay ==
    \A s \in Clients : \A i \in PlaybackFrames(s) :
        inbox[s][i].id \notin joined[s].missed

\* A subscriber that registered after the broadcast of the first call had
\* returned has its connection frame and the event of the second call.
NoReplayWitness ==
    \E s \in Clients :
        /\ joined[s].missed = {0}
        /\ \E i \in DOMAIN inbox[s] :
              /\ inbox[s][i].type = "connection"
              /\ inbox[s][i].data.last_asset # NoInfo
        /\ {inbox[s][i].id : i \in PlaybackFrames(s)} = {1}

(* C21: a successful /navigate hands exactly one event to                  *)
(* broadcast_sse_event, and its type is 'navigation'.                      *)
NavigateEmitsNavigation ==
    [][ (request'.path = "/navigate" /\ Succeeded(response')) =>
            /\ Len(published') = 1
            /\ published'[1].type = "navigation" ]_vars

(* C22: a /play for a card for which the request carries no asset files    *)
(* records the card in scanned_cards with mapped = FALSE and in            *)
(* unknown_cards, and is not answered with an error status.                *)
UnmappedPlayRecorded ==
    [][ (/\ request'.path = "/play"
         /\ request'.card_id # ""
         /\ request'.asset_files.items = <<>>) =>
            LET c == request'.card_id
            IN /\ c \in DOMAIN scanned_cards'
               /\ ~scanned_cards'[c].mapped
               /\ c \in DOMAIN unknown_cards'
               /\ response'.status = 200 ]_vars

(* C27: an /unknown-card request for a card sets mapped = FALSE in the     *)
(* card's record of scanned_cards and raises its scan_count by 1 (1 for a  *)
(* new record), does the same to its entry of unknown_cards, touches no    *)
(* other card's record, leaves current_card_id, the stored indices and     *)
(* lists, assets_played and last_asset_info as they were, and broadcasts   *)
(* nothing.                                                                *)
MarkUnknownEffect ==
    [][ (request'.path = "/unknown-card" /\ request'.card_id # "") =>
            LET c == request'.card_id
            IN /\ DOMAIN scanned_cards' = DOMAIN scanned_cards \cup {c}
               /\ DOMAIN unknown_cards' = DOMAIN unknown_cards \cup {c}
               /\ ~scanned_cards'[c].mapped
               /\ scanned_cards'[c].scan_count =
                     IF c \in DOMAIN scanned_cards
                     THEN scanned_cards[c].scan_count + 1 ELSE 1
               /\ unknown_cards'[c].scan_count =
                     IF c \in DOMAIN unknown_cards
                     THEN unknown_cards[c].scan_count + 1 ELSE 1
               /\ \A d \in DOMAIN scanned_cards \ {c} :
                     scanned_cards'[d] = scanned_cards[d]
               /\ \A d \in DOMAIN unknown_cards \ {c} :
                     unknown_cards'[d] = unknown_cards[d]
               /\ UNCHANGED <<current_card_id, card_asset_indices,
                              card_asset_files, assets_played, last_asset_info>>
               /\ published' = <<>> ]_vars

\* While A1 is playing, B2 has been marked unknown for the second time.
MarkUnknownEffectWitness ==
    /\ request.path = "/unknown-card"
    /\ request.card_id = "B2"
    /\ current_card_id = "A1"
    /\ assets_played = 1
    /\ unknown_cards["B2"].scan_count = 2
    /\ scanned_cards["B2"].scan_count = 2

\* The number of bytes written to wfile in the chunks
RECURSIVE SentBytes(_)
SentBytes(chunks) ==
    IF chunks = <<>> THEN 0 ELSE Head(chunks).len + SentBytes(Tail(chunks))

\* The chunks are the bytes of the file from offset start on, in order
Contiguous(chunks, start) ==
    \A i \in DOMAIN chunks :
        chunks[i].offset = IF i = 1 THEN start
                           ELSE chunks[i - 1].offset + chunks[i - 1].len

\* The media thread serves a Range request on a video file that exists, and
\* the status line and headers have gone out.
RangeRequestAnswered ==
    LET f == frame[MediaThread]
    IN /\ f.req.path = "/assets"
       /\ f.req.range_header # NoRange
       /\ asset_exists(f.req.filename)
       /\ IsVideo(mime_type(f.req.filename))
       /\ f.status # 0

\* The transfer has ended and the client has not closed the connection.
DeliveredAll ==
    pc[MediaThread] = "media_done" /\ frame[MediaThread].wfile = "ok"

(* C23: a Range request start-end with 0 <= start <= end < S on a video of *)
(* size S is answered 206 with Content-Length end - start + 1 and          *)
(* Content-Range start-end/S, and the bytes written are those from start   *)
(* on, in order, end - start + 1 of them once the transfer is complete.    *)
RangeServed ==
    LET f == frame[MediaThread]
        h == f.req.range_header
    IN (/\ RangeRequestAnswered
        /\ h.first # Empty /\ h.last # Empty
        /\ 0 <= h.first /\ h.first <= h.last /\ h.last < f.file_size) =>
           /\ f.status = 206
           /\ f.content_length = h.last - h.first + 1
           /\ f.content_range =
                 [start |-> h.first, end |-> h.last, size |-> f.file_size]
           /\ Contiguous(f.chunks, h.first)
           /\ SentBytes(f.chunks) <= f.content_length
           /\ DeliveredAll => SentBytes(f.chunks) = f.content_length

\* Bytes 100-199 of a file of 1000 bytes have been delivered.
RangeServedWitness ==
    LET f == frame[MediaThread]
    IN /\ RangeRequestAnswered /\ DeliveredAll
       /\ f.file_size = 1000
       /\ f.req.range_header = [first |-> 100, last |-> 199]
       /\ f.content_length = 100
       /\ f.chunks = <<[offset |-> 100, len |-> 100]>>

RangeWithinFile ==
    LET f == frame[MediaThread]
    IN (RangeRequestAnswered /\ f.file_size >= 1) =>
           /\ f.content_range.start \in 0 .. f.file_size - 1
           /\ f.content_range.end \in 0 .. f.file_size - 1
           /\ f.content_length \in 1 .. f.file_size

(* C26: a file, whole or a range of it, is written in chunks of at most    *)
(* 8192 bytes; when the transfer ends without the client having closed the *)
(* connection the bytes written are as many as Content-Length says; no     *)
(* exception leaves the handler; and no step of the transfer changes the   *)
(* server object or the other request thread.                              *)
TransferWellFormed ==
    [][ LET f == frame'[MediaThread]
        IN /\ f.req.path = "/assets" =>
                 /\ \A i \in DOMAIN f.chunks : f.chunks[i].len \in 1 .. chunk_size
                 /\ ~f.raised
                 /\ (pc'[MediaThread] = "media_done" /\ f.wfile = "ok"
                       /\ f.status \in {200, 206}) =>
                          SentBytes(f.chunks) = f.content_length
           /\ frame'[MediaThread] # frame[MediaThread] =>
                 /\ UNCHANGED <<assets_played, last_asset_info, scanned_cards,
                                unknown_cards, card_asset_indices,
                                card_asset_files, current_card_id,
                                card_removal_timestamp, response, published>>
                 /\ pc'[RequestThread] = pc[RequestThread]
                 /\ frame'[RequestThread] = frame[RequestThread] ]_vars

\* The positions in the inbox of s of the events of the given type
FramesOfType(s, type) == {i \in DOMAIN inbox[s] : inbox[s][i].type = type}

(* C28: the heartbeats of a subscriber are written at the ticks that are   *)
(* multiples of 4, and two status_update events that follow one another    *)
(* are at most 2 ticks apart.                                              *)
StatusEveryTwoTicks ==
    LET s == LoopClient
        status == FramesOfType(s, "status_update")
    IN /\ \A i \in FramesOfType(s, "heartbeat") : inbox[s][i].tick % 4 = 0
       /\ \A i, j \in status :
             (i < j /\ \A k \in status : ~(i < k /\ k < j)) =>
                 inbox[s][j].tick - inbox[s][i].tick <= 2

\* A write to the subscriber has raised: sse_connected is False while the
\* handler has not yet left handle_sse_connection.
WriteFailed(s) ==
    pc[s] \in {"connection", "loop", "finally"} /\ ~sse_connected[s]

(* C29: once a write to a subscriber has failed, be it a write of its own  *)
(* loop or of a broadcast, its loop ends; and a subscriber whose loop has  *)
(* ended is not in sse_clients and has sse_connected = False.              *)
LoopEnds ==
    /\ [](pc[LoopClient] = "closed" =>
             LoopClient \notin sse_clients /\ ~sse_connected[LoopClient])
    /\ WriteFailed(LoopClient) ~> (pc[LoopClient] = "closed")

\* The subscriber has left its loop after a write of an event of the loop
\* raised, while a broadcast had reached it before.
LoopEndsWitness ==
    /\ pc[LoopClient] = "closed"
    /\ socket[LoopClient] = "broken"
    /\ frame[LoopClient].heartbeat_count = 2
    /\ FramesOfType(LoopClient, "asset_play") # {}

(* C30: when a pass of the reaper completes, every handler that it found   *)
(* with sse_connected = False, or whose flush raised, is out of            *)
(* sse_clients and has sse_connected = False; a handler that it found      *)
(* connected with a flush that returned, or did not examine, is in         *)
(* sse_clients and connected exactly as it was before the removal.         *)
ReaperPass ==
    [][ (pc[ReaperThread] = "stale" /\ pc'[ReaperThread] = "reaped") =>
            \A c \in Clients :
                IF frame[ReaperThread].examined[c] \in {"disconnected", "flush_failed"}
                THEN c \notin sse_clients' /\ ~sse_connected'[c]
                ELSE /\ (c \in sse_clients') = (c \in sse_clients)
                     /\ sse_connected'[c] = sse_connected[c] ]_vars

\* A pass has ended that found the flush of one handler raising and the
\* other handler connected: the first is gone, the second is kept.
ReaperPassWitness ==
    /\ pc[ReaperThread] = "reaped"
    /\ frame[ReaperThread].examined["s1"] = "flush_failed"
    /\ frame[ReaperThread].examined["s2"] = "ok"
    /\ sse_clients = {"s2"}
    /\ ~sse_connected["s1"] /\ sse_connected["s2"]

(* C31: add_sse_client takes out of sse_clients exactly the handlers of    *)
(* the new handler's address that are marked disconnected, keeps every     *)
(* connected handler and every handler of another address, and leaves the  *)
(* new handler in the set.                                                 *)
RegistrationRemovesStale ==
    [][ \A s \in Handlers :
          (pc[s] = "new" /\ pc'[s] = "connection") =>
              /\ s \in sse_clients'
              /\ \A e \in sse_clients \ {s} :
                    (e \notin sse_clients') <=>
                        (client_address[e] = client_address[s] /\ ~sse_connected[e])
              /\ sse_clients' \subseteq sse_clients \cup {s} ]_vars

\* s2 has registered: s1, of its address and disconnected, went out of the
\* set before its own finally clause ran; s3, disconnected too but of
\* another address, is still in it.
RegistrationRemovesStaleWitness ==
    /\ pc["s2"] = "connection"
    /\ pc["s1"] = "finally" /\ "s1" \notin sse_clients
    /\ pc["s3"] = "finally" /\ "s3" \in sse_clients /\ ~sse_connected["s3"]

(* C32: a thread that holds sse_lock neither writes to nor flushes the     *)
(* connection of a subscriber.                                             *)
NoSocketIOUnderLock ==
    [][ ReaperHoldsLock =>
          \A c \in Clients :
              frame'[ReaperThread].examined[c] \in {"ok", "flush_failed"} =>
                  frame'[ReaperThread].examined[c] = frame[ReaperThread].examined[c] ]_vars

\* The next step of a thread is a "with self.sse_lock:" block.
WaitsForLock(t) ==
    \/ pc[t] \in {"bc_remove", "bc_cleanup"}
    \/ pc[t] = "bc_begin" /\ sse_clients # {}
    \/ pc[t] = "connection" /\ sse_connected[t] /\ socket[t] = "broken"

(* C37: the thread that holds sse_lock is never itself waiting for it, the *)
(* lock is released after every block, and a thread that has come to a     *)
(* "with self.sse_lock:" gets past it.                                     *)
LockLive ==
    /\ [](ReaperHoldsLock => ENABLED ReaperExamine(ReaperThread))
    /\ ReaperHoldsLock ~> ~ReaperHoldsLock
    /\ WaitsForLock(RequestThread) ~> ~WaitsForLock(RequestThread)
    /\ WaitsForLock(LoopClient) ~> ~WaitsForLock(LoopClient)

\* The broadcast has taken a handler whose write raised out of sse_clients
\* after the reaper, that had found the handler connected, left its block.
LockLiveWitness ==
    /\ pc[ReaperThread] = "stale"
    /\ frame[ReaperThread].examined[LoopClient] = "ok"
    /\ pc[RequestThread] = "bc_cleanup"
    /\ LoopClient \notin sse_clients

(* C33: a /play or /navigate that reports failure leaves current_card_id,  *)
(* the stored index and the stored list of every card as they were.        *)
FailureKeepsPosition ==
    [][ (request'.path \in {"/play", "/navigate"} /\ ~Succeeded(response')) =>
            UNCHANGED <<current_card_id, card_asset_indices, card_asset_files>> ]_vars

(* C34: no two threads are inside a write to the connection of the same    *)
(* subscriber: while the loop of the subscriber writes an event of its     *)
(* own, no broadcast writes to it.                                         *)
OneWriterPerSubscriber ==
    ~(/\ pc[LoopClient] = "writing"
      /\ pc[RequestThread] = "bc_writing"
      /\ Head(frame[RequestThread].todo) = LoopClient)

(* C35: with requests handled in concurrent threads, the response to a     *)
(* /play or /navigate that succeeded carries the asset_file, asset_index   *)
(* and total_assets of the record that request's own thread wrote.         *)
ResponseIsOwnRecord ==
    [][ \A t \in Threads :
          (/\ pc[t] = "respond" /\ pc'[t] = "idle"
           /\ frame[t].req.path \in {"/play", "/navigate"}
           /\ frame[t].ret) =>
              /\ response'.status = 200
              /\ response'.asset_file = frame[t].wrote.asset_file
              /\ response'.asset_index = frame[t].wrote.asset_index
              /\ response'.total_assets = frame[t].wrote.total_assets ]_vars

\* The positions in completed of the /play and /navigate calls that
\* returned success
SuccessfulPlays ==
    {i \in DOMAIN completed : /\ completed[i].req.path \in {"/play", "/navigate"}
                              /\ completed[i].ret}

(* C36: assets_played never decreases, and when every request thread has   *)
(* answered it is the number of /play and /navigate calls that returned    *)
(* success; the scan_count of a card is then the number of calls that      *)
(* recorded a sighting of it.                                              *)
CounterMatchesSuccesses ==
    [][ /\ assets_played' >= assets_played
        /\ AllIdle' =>
              /\ assets_played' = Cardinality(SuccessfulPlays')
              /\ \A c \in DOMAIN scanned_cards' :
                    scanned_cards'[c].scan_count =
                        Cardinality({i \in DOMAIN completed' :
                                        /\ completed'[i].req.card_id = c
                                        /\ \/ i \in SuccessfulPlays'
                                           \/ completed'[i].req.path = "/unknown-card"}) ]_vars

\* The scanner has posted a request of one of the paths in this step.
Posted(paths) == now' = now + 1 /\ request'.path \in paths

(* C38: the /play that the scanner posts for a card of its CARD_ASSETS     *)
(* whose files are in storage makes that card the server's current card    *)
(* and is broadcast as an asset_play event.                                *)
MappedPlayAccepted ==
    [][ (/\ Posted({"/play"})
         /\ request'.card_id \in DOMAIN card_assets
         /\ AllStored(card_assets[request'.card_id])) =>
            /\ current_card_id' = request'.card_id
            /\ published' # <<>>
            /\ published'[1].type = "asset_play" ]_vars

(* C39: the scanner posts no /play or /unknown-card for a read of the card *)
(* it has processed already; the mark of a card as processed is taken      *)
(* back only when REMOVAL_THRESHOLD polls in a row have read nothing; a    *)
(* read of another card is processed at once; and what is processed is     *)
(* the card just read.                                                     *)
ProcessedOncePerPlacement ==
    [][ LET f == frame[Scanner]
            g == frame'[Scanner]
            processed == Posted({"/play", "/unknown-card"})
        IN /\ (g.card_id # None /\ g.card_id = f.current_card /\ f.card_processed) =>
                 ~processed
           /\ (f.card_processed /\ ~g.card_processed) =>
                 g.consecutive_failures >= REMOVAL_THRESHOLD
           /\ (g.card_id # None /\ g.card_id # f.current_card) => processed
           /\ processed => request'.card_id = g.card_id /\ g.card_id # None ]_vars

\* B2 has been processed, taken away and, put back, processed again.
ProcessedOncePerPlacementWitness ==
    /\ now = 3
    /\ request = ClientRequest("/unknown-card", "B2")
    /\ frame[Scanner].current_card = "B2"
    /\ frame[Scanner].card_processed
    /\ scanned_cards["B2"].scan_count = 2
    /\ current_card_id = None

(* C40: the scanner posts /card-removed only in a poll that reads nothing  *)
(* for at least the REMOVAL_THRESHOLD-th time in a row while a card is     *)
(* marked present; it names the card processed last; the card is no longer *)
(* marked present afterwards, and only processing a card marks one present *)
(* again.                                                                  *)
RemovalSignalledOnce ==
    [][ LET f == frame[Scanner]
            g == frame'[Scanner]
        IN /\ Posted({"/card-removed"}) =>
                 /\ f.card_present /\ ~g.card_present
                 /\ g.card_id = None
                 /\ g.consecutive_failures >= REMOVAL_THRESHOLD
                 /\ request'.card_id = f.current_card
           /\ (~f.card_present /\ g.card_present) =>
                 Posted({"/play", "/unknown-card"}) ]_vars

\* The removal of B2 has been signalled, and the next poll, which read
\* nothing either, has sent nothing.
RemovalSignalledOnceWitness ==
    /\ now = 2
    /\ request = ClientRequest("/card-removed", "B2")
    /\ frame[Scanner].consecutive_failures = REMOVAL_THRESHOLD + 1
    /\ ~frame[Scanner].card_present
    /\ frame[Scanner].current_card = "B2"

====
